---- MODULE Spec2Model ----
(***************************************************************************)
(* The three invoice contracts of the repository as one state machine:     *)
(*   InvoiceManager       src/contracts/contracts/InvoiceManager.sol 12-244 *)
(*   ConfidentialInvoice  src/contracts/contracts/InvoiceManager.sol 258-523*)
(*   SimpleInvoice        src/unnamed/part_002                              *)
(* The deployed contract is chosen in Init (variable variant); every       *)
(* external function is an operator from the current storage and the call's *)
(* inputs to a call result (error, return value, events, FHE grants, new   *)
(* storage), and one action per function applies it.  A reverting call      *)
(* leaves the storage as it was, as the EVM does.                           *)
(*                                                                         *)
(* The page of the frontend is a second state machine over the same        *)
(* variables (specification SpecFhevm): the useFhevm hook in its versions  *)
(*   demo       src/frontend/src/hooks/useFhevm.ts 1-117                    *)
(*   singleton  src/frontend/src/hooks/useFhevm.ts 119-278,                 *)
(*              src/unnamed/part_003 323-469                                *)
(*   effect     src/unnamed/part_003 566-684                                *)
(* with the module-level SDK instance and init promise they share, and     *)
(* CreateInvoice.onSubmit, which encrypts an amount and submits it.        *)
(***************************************************************************)
EXTENDS Integers, Sequences, FiniteSets, TLC

\* ------------------------------------------------------------------ bounds
NumParties == 2
NumBystanders == 1
MaxInvoices == 2
MaxTime == 2
MaxAmount == 2
EuintBits == 1
GivenDueDate == 7
NumHooks == 3
MaxAttempts == 3
NumNonces == 2

\* --------------------------------------------------------------- constants
ZeroAddress == 0
THIRTY_DAYS == 2592000
HandleDigits == 64
ProofBytes == 32

\* Accounts: parties create invoices, are named as recipients and deposit;
\* bystanders call every function on invoices they are no party of.
Parties == 1..NumParties
Users == 1..(NumParties + NumBystanders)
Addresses == {ZeroAddress} \cup Users
Recipients == {ZeroAddress} \cup Parties
IdSpace == 0..MaxInvoices
Amounts == 0..MaxAmount
Descriptions == {"rent"}
DueDates == {0, GivenDueDate}
EuintModulus == 2 ^ EuintBits
EuintValues == 0..(EuintModulus - 1)

IM == "InvoiceManager"
CI == "ConfidentialInvoice"
SI == "SimpleInvoice"
Variants == {IM, CI, SI}

Pending == "Pending"
Paid == "Paid"
Cancelled == "Cancelled"
Disputed == "Disputed"

\* variant            which of the three contracts is deployed
\* now                block.timestamp of the current block
\* invoiceCounter     _invoiceIdCounter (InvoiceManager.sol 28), _invoiceCounter
\*                    (InvoiceManager.sol 283, part_002 28)
\* invoices           _invoices, on the ids of IdSpace (29, 284, part_002 29)
\* sentInvoices       _sentInvoices (30, 285, part_002 30)
\* receivedInvoices   _receivedInvoices (31, 286, part_002 31)
\* encryptedBalances  _encryptedBalances (280; ConfidentialInvoice only)
\* emitted            the contract's event log, as the number of events of each
\*                    invoice event kind emitted so far for each invoice id
\* deposited          the total of the amounts of the depositBalance calls
\*                    mined so far, as an euint64 holds it
VARIABLES variant, now, invoiceCounter, invoices, sentInvoices,
          receivedInvoices, encryptedBalances, emitted, deposited

\* The page.
\* hookVersion          the version of useFhevm the page is built with
\* globalFhevmInstance  the module-level instance (useFhevm.ts 129, part_003
\*                      329; fhevmInstance of part_003 573): 0 is null, k the
\*                      instance the k-th creation made
\* initPromise          the module-level promise (useFhevm.ts 130, part_003
\*                      330, 574): 0 is null, k the promise of the k-th
\*                      creation
\* creation             the creations started so far and how far each has come
\* hook                 the useFhevm instances of the mounted components
\*                      (App, CreateInvoice, Header): where the call of each
\*                      stands and its React state
\* submitted            what CreateInvoice.onSubmit last passed to createInvoice
VARIABLES hookVersion, globalFhevmInstance, initPromise, creation, hook,
          submitted

contractVars == <<variant, now, invoiceCounter, invoices, sentInvoices,
                  receivedInvoices, encryptedBalances, emitted, deposited>>

pageVars == <<hookVersion, globalFhevmInstance, initPromise, creation, hook,
              submitted>>

vars == <<variant, now, invoiceCounter, invoices, sentInvoices,
          receivedInvoices, encryptedBalances, emitted, deposited,
          hookVersion, globalFhevmInstance, initPromise, creation, hook,
          submitted>>

\* ------------------------------------------------------- FHE library model
\* An euint64 is a handle; the model keeps whether the handle is set and the
\* plaintext behind it (EuintBits wide instead of 64).
Uninitialized == [init |-> FALSE, val |-> 0]
Enc(v) == [init |-> TRUE, val |-> v % EuintModulus]
ExternalInputs == [val : EuintValues, proofOk : BOOLEAN]

FHE_isInitialized(h) == h.init
FHE_asEuint64(v) == Enc(v)
FHE_add(a, b) == Enc(a.val + b.val)
FHE_sub(a, b) == Enc(a.val - b.val + EuintModulus)
FHE_ge(a, b) == a.val >= b.val

\* Mutant of FHE_select: the first branch is taken whatever the condition.
FHE_select_AlwaysFirst(c, a, b) == Enc(a.val)

FHE_select(c, a, b) == IF c THEN Enc(a.val) ELSE Enc(b.val)


\* ------------------------------------------------------------ storage, results
\* The default value of mapping(uint256 => Invoice): every field zero.
EmptyInvoice ==
    IF variant = IM
    THEN [id |-> 0, sender |-> ZeroAddress, recipient |-> ZeroAddress,
          encryptedAmount |-> Uninitialized, description |-> "",
          status |-> Pending, createdAt |-> 0, updatedAt |-> 0]
    ELSE IF variant = CI
    THEN [id |-> 0, sender |-> ZeroAddress, recipient |-> ZeroAddress,
          encryptedAmount |-> Uninitialized, description |-> "",
          status |-> Pending, createdAt |-> 0, dueDate |-> 0]
    ELSE [id |-> 0, sender |-> ZeroAddress, recipient |-> ZeroAddress,
          amount |-> 0, description |-> "",
          status |-> Pending, createdAt |-> 0, dueDate |-> 0]

Storage ==
    [invoiceCounter |-> invoiceCounter, invoices |-> invoices,
     sentInvoices |-> sentInvoices, receivedInvoices |-> receivedInvoices,
     encryptedBalances |-> encryptedBalances]

Error(name, args) == [name |-> name, args |-> args]
NoError == Error("", <<>>)
NoReturn == <<>>

\* A call that runs to its end: the storage s it wrote is kept.
Success(s, ret, events, grants) ==
    [err |-> NoError, ret |-> ret, events |-> events, grants |-> grants, st |-> s]

\* Mutant of Revert: the storage written before the revert is kept.
Revert_KeepsWrites(s, e) ==
    [err |-> e, ret |-> NoReturn, events |-> <<>>, grants |-> {}, st |-> s]

\* A call that reverts with error e after having written storage s: the EVM
\* discards s, the events and the grants of the call.
Revert(s, e) ==
    [err |-> e, ret |-> NoReturn, events |-> <<>>, grants |-> {}, st |-> Storage]

\* Errors as each contract declares them: InvoiceManager's carry arguments
\* and it names the status and caller errors InvoiceNotPending,
\* OnlyRecipientCanPay and OnlySenderCanCancel; ConfidentialInvoice and
\* SimpleInvoice use InvalidStatus and NotAuthorized without arguments.
InvoiceNotFound(invoiceId) ==
    IF variant = IM THEN Error("InvoiceNotFound", <<invoiceId>>)
    ELSE Error("InvoiceNotFound", <<>>)
InvalidRecipient(recipient) ==
    IF variant = IM THEN Error("InvalidRecipient", <<recipient>>)
    ELSE Error("InvalidRecipient", <<>>)
InvalidStatus(invoiceId) ==
    IF variant = IM THEN Error("InvoiceNotPending", <<invoiceId>>)
    ELSE Error("InvalidStatus", <<>>)
OnlyRecipientCanPay(invoiceId) ==
    IF variant = IM THEN Error("OnlyRecipientCanPay", <<invoiceId>>)
    ELSE Error("NotAuthorized", <<>>)
OnlySenderCanCancel(invoiceId) ==
    IF variant = IM THEN Error("OnlySenderCanCancel", <<invoiceId>>)
    ELSE Error("NotAuthorized", <<>>)
NotAuthorized(caller, invoiceId) ==
    IF variant = IM THEN Error("NotAuthorized", <<caller, invoiceId>>)
    ELSE Error("NotAuthorized", <<>>)
InvalidAmount == Error("InvalidAmount", <<>>)
InsufficientBalance == Error("InsufficientBalance", <<>>)
InvalidProof == Error("InvalidProof", <<>>)

\* FHE.fromExternal(handle, inputProof): the input verifier rejects a handle
\* whose proof does not verify (the call reverts), else yields the ciphertext.
FHE_verifies(ext) == ext.proofOk
FHE_fromExternal(ext) == Enc(ext.val)

\* FHE.allowThis(h) / FHE.allow(h, a): grant on the handle named (kind, of).
\* address(this) is an address no user has.
This == NumParties + NumBystanders + 1
Grant(kind, of, to) == [kind |-> kind, of |-> of, to |-> to]

\* ------------------------------------------------------------ InvoiceManager

\* Mutant of IM_createInvoice: the counter is incremented before it is read
\* (++_invoiceIdCounter).
IM_createInvoice_PreIncrement(caller, _recipient, _encryptedAmount, _description, ts) ==
    IF _recipient = ZeroAddress \/ _recipient = caller
    THEN Revert(Storage, InvalidRecipient(_recipient))
    ELSE
    LET invoiceId == invoiceCounter + 1
        s1 == [Storage EXCEPT !.invoiceCounter = @ + 1]
    IN  IF ~FHE_verifies(_encryptedAmount) \/ invoiceId \notin IdSpace
        THEN Revert(s1, InvalidProof)
        ELSE
        LET amount == FHE_fromExternal(_encryptedAmount)
            s2 == [s1 EXCEPT
                     !.invoices[invoiceId] =
                        [id |-> invoiceId, sender |-> caller,
                         recipient |-> _recipient, encryptedAmount |-> amount,
                         description |-> _description, status |-> Pending,
                         createdAt |-> ts, updatedAt |-> ts],
                     !.sentInvoices[caller] = Append(@, invoiceId),
                     !.receivedInvoices[_recipient] = Append(@, invoiceId)]
        IN  Success(s2, invoiceId,
                    << [name |-> "InvoiceCreated", invoiceId |-> invoiceId,
                        sender |-> caller, recipient |-> _recipient,
                        description |-> _description, timestamp |-> ts] >>,
                    {Grant("amount", invoiceId, This),
                     Grant("amount", invoiceId, caller),
                     Grant("amount", invoiceId, _recipient)})

\* Mutant of IM_createInvoice: the id is pushed on the recipient's sent list
\* and on the creator's received list.
IM_createInvoice_ListsSwapped(caller, _recipient, _encryptedAmount, _description, ts) ==
    IF _recipient = ZeroAddress \/ _recipient = caller
    THEN Revert(Storage, InvalidRecipient(_recipient))
    ELSE
    LET invoiceId == invoiceCounter
        s1 == [Storage EXCEPT !.invoiceCounter = @ + 1]
    IN  IF ~FHE_verifies(_encryptedAmount) THEN Revert(s1, InvalidProof)
        ELSE
        LET amount == FHE_fromExternal(_encryptedAmount)
            s2 == [s1 EXCEPT
                     !.invoices[invoiceId] =
                        [id |-> invoiceId, sender |-> caller,
                         recipient |-> _recipient, encryptedAmount |-> amount,
                         description |-> _description, status |-> Pending,
                         createdAt |-> ts, updatedAt |-> ts],
                     !.sentInvoices[_recipient] = Append(@, invoiceId),
                     !.receivedInvoices[caller] = Append(@, invoiceId)]
        IN  Success(s2, invoiceId,
                    << [name |-> "InvoiceCreated", invoiceId |-> invoiceId,
                        sender |-> caller, recipient |-> _recipient,
                        description |-> _description, timestamp |-> ts] >>,
                    {Grant("amount", invoiceId, This),
                     Grant("amount", invoiceId, caller),
                     Grant("amount", invoiceId, _recipient)})

IM_createInvoice(caller, _recipient, _encryptedAmount, _description, ts) ==
    IF _recipient = ZeroAddress \/ _recipient = caller
    THEN Revert(Storage, InvalidRecipient(_recipient))
    ELSE
    LET invoiceId == invoiceCounter
        s1 == [Storage EXCEPT !.invoiceCounter = @ + 1]
    IN  IF ~FHE_verifies(_encryptedAmount) THEN Revert(s1, InvalidProof)
        ELSE
        LET amount == FHE_fromExternal(_encryptedAmount)
            s2 == [s1 EXCEPT
                     !.invoices[invoiceId] =
                        [id |-> invoiceId, sender |-> caller,
                         recipient |-> _recipient, encryptedAmount |-> amount,
                         description |-> _description, status |-> Pending,
                         createdAt |-> ts, updatedAt |-> ts],
                     !.sentInvoices[caller] = Append(@, invoiceId),
                     !.receivedInvoices[_recipient] = Append(@, invoiceId)]
        IN  Success(s2, invoiceId,
                    << [name |-> "InvoiceCreated", invoiceId |-> invoiceId,
                        sender |-> caller, recipient |-> _recipient,
                        description |-> _description, timestamp |-> ts] >>,
                    {Grant("amount", invoiceId, This),
                     Grant("amount", invoiceId, caller),
                     Grant("amount", invoiceId, _recipient)})


\* Mutant of IM_payInvoice: the timestamp is written to createdAt.
IM_payInvoice_WritesCreatedAt(caller, _invoiceId, ts) ==
    LET invoice == invoices[_invoiceId] IN
    IF invoice.sender = ZeroAddress
    THEN Revert(Storage, InvoiceNotFound(_invoiceId))
    ELSE IF invoice.status # Pending
    THEN Revert(Storage, InvalidStatus(_invoiceId))
    ELSE IF caller # invoice.recipient
    THEN Revert(Storage, OnlyRecipientCanPay(_invoiceId))
    ELSE Success([Storage EXCEPT !.invoices[_invoiceId].status = Paid,
                                 !.invoices[_invoiceId].createdAt = ts],
                 NoReturn,
                 << [name |-> "InvoicePaid", invoiceId |-> _invoiceId,
                     payer |-> caller, timestamp |-> ts] >>,
                 {})

IM_payInvoice(caller, _invoiceId, ts) ==
    LET invoice == invoices[_invoiceId] IN
    IF invoice.sender = ZeroAddress
    THEN Revert(Storage, InvoiceNotFound(_invoiceId))
    ELSE IF invoice.status # Pending
    THEN Revert(Storage, InvalidStatus(_invoiceId))
    ELSE IF caller # invoice.recipient
    THEN Revert(Storage, OnlyRecipientCanPay(_invoiceId))
    ELSE Success([Storage EXCEPT !.invoices[_invoiceId].status = Paid,
                                 !.invoices[_invoiceId].updatedAt = ts],
                 NoReturn,
                 << [name |-> "InvoicePaid", invoiceId |-> _invoiceId,
                     payer |-> caller, timestamp |-> ts] >>,
                 {})


\* Mutant of IM_cancelInvoice: the sender check is left out.
IM_cancelInvoice_NoAuth(caller, _invoiceId, ts) ==
    LET invoice == invoices[_invoiceId] IN
    IF invoice.sender = ZeroAddress
    THEN Revert(Storage, InvoiceNotFound(_invoiceId))
    ELSE IF invoice.status # Pending
    THEN Revert(Storage, InvalidStatus(_invoiceId))
    ELSE Success([Storage EXCEPT !.invoices[_invoiceId].status = Cancelled,
                                 !.invoices[_invoiceId].updatedAt = ts],
                 NoReturn,
                 << [name |-> "InvoiceCancelled", invoiceId |-> _invoiceId,
                     canceller |-> caller, timestamp |-> ts] >>,
                 {})

IM_cancelInvoice(caller, _invoiceId, ts) ==
    LET invoice == invoices[_invoiceId] IN
    IF invoice.sender = ZeroAddress
    THEN Revert(Storage, InvoiceNotFound(_invoiceId))
    ELSE IF invoice.status # Pending
    THEN Revert(Storage, InvalidStatus(_invoiceId))
    ELSE IF caller # invoice.sender
    THEN Revert(Storage, OnlySenderCanCancel(_invoiceId))
    ELSE Success([Storage EXCEPT !.invoices[_invoiceId].status = Cancelled,
                                 !.invoices[_invoiceId].updatedAt = ts],
                 NoReturn,
                 << [name |-> "InvoiceCancelled", invoiceId |-> _invoiceId,
                     canceller |-> caller, timestamp |-> ts] >>,
                 {})

IM_getInvoice(caller, _invoiceId) ==
    LET invoice == invoices[_invoiceId] IN
    IF invoice.sender = ZeroAddress
    THEN Revert(Storage, InvoiceNotFound(_invoiceId))
    ELSE Success(Storage,
                 <<invoice.id, invoice.sender, invoice.recipient,
                   invoice.description, invoice.status, invoice.createdAt,
                   invoice.updatedAt>>,
                 <<>>, {})


\* Mutant of IM_getEncryptedAmount: the caller check comes before the
\* existence check.
IM_getEncryptedAmount_AuthFirst(caller, _invoiceId) ==
    LET invoice == invoices[_invoiceId] IN
    IF caller # invoice.sender /\ caller # invoice.recipient
    THEN Revert(Storage, NotAuthorized(caller, _invoiceId))
    ELSE IF invoice.sender = ZeroAddress
    THEN Revert(Storage, InvoiceNotFound(_invoiceId))
    ELSE Success(Storage, invoice.encryptedAmount, <<>>, {})

IM_getEncryptedAmount(caller, _invoiceId) ==
    LET invoice == invoices[_invoiceId] IN
    IF invoice.sender = ZeroAddress
    THEN Revert(Storage, InvoiceNotFound(_invoiceId))
    ELSE IF caller # invoice.sender /\ caller # invoice.recipient
    THEN Revert(Storage, NotAuthorized(caller, _invoiceId))
    ELSE Success(Storage, invoice.encryptedAmount, <<>>, {})

\* ------------------------------------------------------- ConfidentialInvoice
\* Mutant of CI_depositBalance: the deposit replaces the balance instead of
\* being added to it.
CI_depositBalance_Overwrites(caller, encryptedAmount) ==
    IF ~FHE_verifies(encryptedAmount) THEN Revert(Storage, InvalidProof)
    ELSE
    LET amount == FHE_fromExternal(encryptedAmount)
        s1 == [Storage EXCEPT !.encryptedBalances[caller] = amount]
    IN  Success(s1, NoReturn,
                << [name |-> "BalanceDeposited", user |-> caller] >>,
                {Grant("balance", caller, This), Grant("balance", caller, caller)})

CI_depositBalance(caller, encryptedAmount) ==
    IF ~FHE_verifies(encryptedAmount) THEN Revert(Storage, InvalidProof)
    ELSE
    LET amount == FHE_fromExternal(encryptedAmount)
        s1 == IF ~FHE_isInitialized(encryptedBalances[caller])
              THEN [Storage EXCEPT !.encryptedBalances[caller] = amount]
              ELSE [Storage EXCEPT !.encryptedBalances[caller] =
                                       FHE_add(encryptedBalances[caller], amount)]
    IN  Success(s1, NoReturn,
                << [name |-> "BalanceDeposited", user |-> caller] >>,
                {Grant("balance", caller, This), Grant("balance", caller, caller)})


\* Mutant of CI_createInvoice: the id is not pushed on the recipient's list.
CI_createInvoice_NoReceivedPush(caller, recipient, encryptedAmount, description, dueDate, ts) ==
    IF recipient = ZeroAddress \/ recipient = caller
    THEN Revert(Storage, InvalidRecipient(recipient))
    ELSE IF ~FHE_verifies(encryptedAmount) THEN Revert(Storage, InvalidProof)
    ELSE
    LET amount == FHE_fromExternal(encryptedAmount)
        invoiceId == invoiceCounter
        s1 == [Storage EXCEPT
                 !.invoiceCounter = @ + 1,
                 !.invoices[invoiceId] =
                    [id |-> invoiceId, sender |-> caller,
                     recipient |-> recipient, encryptedAmount |-> amount,
                     description |-> description, status |-> Pending,
                     createdAt |-> ts, dueDate |-> dueDate],
                 !.sentInvoices[caller] = Append(@, invoiceId)]
    IN  Success(s1, invoiceId,
                << [name |-> "InvoiceCreated", invoiceId |-> invoiceId,
                    sender |-> caller, recipient |-> recipient,
                    description |-> description, dueDate |-> dueDate] >>,
                {Grant("amount", invoiceId, This),
                 Grant("amount", invoiceId, caller),
                 Grant("amount", invoiceId, recipient)})

\* Mutant of CI_createInvoice: an invoice addressed to its own creator is
\* accepted.
CI_createInvoice_AllowsSelf(caller, recipient, encryptedAmount, description, dueDate, ts) ==
    IF recipient = ZeroAddress
    THEN Revert(Storage, InvalidRecipient(recipient))
    ELSE IF ~FHE_verifies(encryptedAmount) THEN Revert(Storage, InvalidProof)
    ELSE
    LET amount == FHE_fromExternal(encryptedAmount)
        invoiceId == invoiceCounter
        s1 == [Storage EXCEPT
                 !.invoiceCounter = @ + 1,
                 !.invoices[invoiceId] =
                    [id |-> invoiceId, sender |-> caller,
                     recipient |-> recipient, encryptedAmount |-> amount,
                     description |-> description, status |-> Pending,
                     createdAt |-> ts, dueDate |-> dueDate],
                 !.sentInvoices[caller] = Append(@, invoiceId),
                 !.receivedInvoices[recipient] = Append(@, invoiceId)]
    IN  Success(s1, invoiceId,
                << [name |-> "InvoiceCreated", invoiceId |-> invoiceId,
                    sender |-> caller, recipient |-> recipient,
                    description |-> description, dueDate |-> dueDate] >>,
                {Grant("amount", invoiceId, This),
                 Grant("amount", invoiceId, caller),
                 Grant("amount", invoiceId, recipient)})

CI_createInvoice(caller, recipient, encryptedAmount, description, dueDate, ts) ==
    IF recipient = ZeroAddress \/ recipient = caller
    THEN Revert(Storage, InvalidRecipient(recipient))
    ELSE IF ~FHE_verifies(encryptedAmount) THEN Revert(Storage, InvalidProof)
    ELSE
    LET amount == FHE_fromExternal(encryptedAmount)
        invoiceId == invoiceCounter
        s1 == [Storage EXCEPT
                 !.invoiceCounter = @ + 1,
                 !.invoices[invoiceId] =
                    [id |-> invoiceId, sender |-> caller,
                     recipient |-> recipient, encryptedAmount |-> amount,
                     description |-> description, status |-> Pending,
                     createdAt |-> ts, dueDate |-> dueDate],
                 !.sentInvoices[caller] = Append(@, invoiceId),
                 !.receivedInvoices[recipient] = Append(@, invoiceId)]
    IN  Success(s1, invoiceId,
                << [name |-> "InvoiceCreated", invoiceId |-> invoiceId,
                    sender |-> caller, recipient |-> recipient,
                    description |-> description, dueDate |-> dueDate] >>,
                {Grant("amount", invoiceId, This),
                 Grant("amount", invoiceId, caller),
                 Grant("amount", invoiceId, recipient)})

\* Mutant of CI_payInvoice: the payer's balance handle is not tested for being
\* set.
CI_payInvoice_NoInitCheck(caller, invoiceId) ==
    LET invoice == invoices[invoiceId] IN
    IF invoice.sender = ZeroAddress
    THEN Revert(Storage, InvoiceNotFound(invoiceId))
    ELSE IF invoice.status # Pending
    THEN Revert(Storage, InvalidStatus(invoiceId))
    ELSE IF caller # invoice.recipient
    THEN Revert(Storage, OnlyRecipientCanPay(invoiceId))
    ELSE
    LET payerBalance == encryptedBalances[caller]
        hasEnough == FHE_ge(payerBalance, invoice.encryptedAmount)
        amountToTransfer ==
            FHE_select(hasEnough, invoice.encryptedAmount, FHE_asEuint64(0))
        s1 == [Storage EXCEPT !.encryptedBalances[caller] =
                                  FHE_sub(payerBalance, amountToTransfer)]
        s2 == IF ~FHE_isInitialized(s1.encryptedBalances[invoice.sender])
              THEN [s1 EXCEPT !.encryptedBalances[invoice.sender] =
                                  amountToTransfer]
              ELSE [s1 EXCEPT !.encryptedBalances[invoice.sender] =
                                  FHE_add(s1.encryptedBalances[invoice.sender],
                                          amountToTransfer)]
        s3 == [s2 EXCEPT !.invoices[invoiceId].status = Paid]
    IN  Success(s3, NoReturn,
                << [name |-> "InvoicePaid", invoiceId |-> invoiceId,
                    payer |-> caller] >>,
                {Grant("balance", caller, This),
                 Grant("balance", caller, caller),
                 Grant("balance", invoice.sender, This),
                 Grant("balance", invoice.sender, invoice.sender)})

\* Mutant of CI_payInvoice: the payer is granted the sender's new balance
\* (FHE.allow(_encryptedBalances[invoice.sender], msg.sender)).
CI_payInvoice_AllowsPayerOnSender(caller, invoiceId) ==
    LET invoice == invoices[invoiceId] IN
    IF invoice.sender = ZeroAddress
    THEN Revert(Storage, InvoiceNotFound(invoiceId))
    ELSE IF invoice.status # Pending
    THEN Revert(Storage, InvalidStatus(invoiceId))
    ELSE IF caller # invoice.recipient
    THEN Revert(Storage, OnlyRecipientCanPay(invoiceId))
    ELSE
    LET payerBalance == encryptedBalances[caller] IN
    IF ~FHE_isInitialized(payerBalance)
    THEN Revert(Storage, InsufficientBalance)
    ELSE
    LET hasEnough == FHE_ge(payerBalance, invoice.encryptedAmount)
        amountToTransfer ==
            FHE_select(hasEnough, invoice.encryptedAmount, FHE_asEuint64(0))
        s1 == [Storage EXCEPT !.encryptedBalances[caller] =
                                  FHE_sub(payerBalance, amountToTransfer)]
        s2 == IF ~FHE_isInitialized(s1.encryptedBalances[invoice.sender])
              THEN [s1 EXCEPT !.encryptedBalances[invoice.sender] =
                                  amountToTransfer]
              ELSE [s1 EXCEPT !.encryptedBalances[invoice.sender] =
                                  FHE_add(s1.encryptedBalances[invoice.sender],
                                          amountToTransfer)]
        s3 == [s2 EXCEPT !.invoices[invoiceId].status = Paid]
    IN  Success(s3, NoReturn,
                << [name |-> "InvoicePaid", invoiceId |-> invoiceId,
                    payer |-> caller] >>,
                {Grant("balance", caller, This),
                 Grant("balance", caller, caller),
                 Grant("balance", invoice.sender, This),
                 Grant("balance", invoice.sender, caller)})

CI_payInvoice(caller, invoiceId) ==
    LET invoice == invoices[invoiceId] IN
    IF invoice.sender = ZeroAddress
    THEN Revert(Storage, InvoiceNotFound(invoiceId))
    ELSE IF invoice.status # Pending
    THEN Revert(Storage, InvalidStatus(invoiceId))
    ELSE IF caller # invoice.recipient
    THEN Revert(Storage, OnlyRecipientCanPay(invoiceId))
    ELSE
    LET payerBalance == encryptedBalances[caller] IN
    IF ~FHE_isInitialized(payerBalance)
    THEN Revert(Storage, InsufficientBalance)
    ELSE
    LET hasEnough == FHE_ge(payerBalance, invoice.encryptedAmount)
        amountToTransfer ==
            FHE_select(hasEnough, invoice.encryptedAmount, FHE_asEuint64(0))
        s1 == [Storage EXCEPT !.encryptedBalances[caller] =
                                  FHE_sub(payerBalance, amountToTransfer)]
        s2 == IF ~FHE_isInitialized(s1.encryptedBalances[invoice.sender])
              THEN [s1 EXCEPT !.encryptedBalances[invoice.sender] =
                                  amountToTransfer]
              ELSE [s1 EXCEPT !.encryptedBalances[invoice.sender] =
                                  FHE_add(s1.encryptedBalances[invoice.sender],
                                          amountToTransfer)]
        s3 == [s2 EXCEPT !.invoices[invoiceId].status = Paid]
    IN  Success(s3, NoReturn,
                << [name |-> "InvoicePaid", invoiceId |-> invoiceId,
                    payer |-> caller] >>,
                {Grant("balance", caller, This),
                 Grant("balance", caller, caller),
                 Grant("balance", invoice.sender, This),
                 Grant("balance", invoice.sender, invoice.sender)})

\* Mutant of CI_cancelInvoice: the cancelled id is removed from the sender's
\* list.
CI_cancelInvoice_Unlists(caller, invoiceId) ==
    LET invoice == invoices[invoiceId] IN
    IF invoice.sender = ZeroAddress
    THEN Revert(Storage, InvoiceNotFound(invoiceId))
    ELSE IF invoice.status # Pending
    THEN Revert(Storage, InvalidStatus(invoiceId))
    ELSE IF caller # invoice.sender
    THEN Revert(Storage, OnlySenderCanCancel(invoiceId))
    ELSE Success([Storage EXCEPT
                    !.invoices[invoiceId].status = Cancelled,
                    !.sentInvoices[caller] =
                        SelectSeq(@, LAMBDA x : x # invoiceId)],
                 NoReturn,
                 << [name |-> "InvoiceCancelled", invoiceId |-> invoiceId] >>,
                 {})

CI_cancelInvoice(caller, invoiceId) ==
    LET invoice == invoices[invoiceId] IN
    IF invoice.sender = ZeroAddress
    THEN Revert(Storage, InvoiceNotFound(invoiceId))
    ELSE IF invoice.status # Pending
    THEN Revert(Storage, InvalidStatus(invoiceId))
    ELSE IF caller # invoice.sender
    THEN Revert(Storage, OnlySenderCanCancel(invoiceId))
    ELSE Success([Storage EXCEPT !.invoices[invoiceId].status = Cancelled],
                 NoReturn,
                 << [name |-> "InvoiceCancelled", invoiceId |-> invoiceId] >>,
                 {})


\* Mutant of CI_disputeInvoice: either party of the invoice may dispute.
CI_disputeInvoice_AnyParty(caller, invoiceId) ==
    LET invoice == invoices[invoiceId] IN
    IF invoice.sender = ZeroAddress
    THEN Revert(Storage, InvoiceNotFound(invoiceId))
    ELSE IF invoice.status # Pending
    THEN Revert(Storage, InvalidStatus(invoiceId))
    ELSE IF caller # invoice.recipient /\ caller # invoice.sender
    THEN Revert(Storage, OnlyRecipientCanPay(invoiceId))
    ELSE Success([Storage EXCEPT !.invoices[invoiceId].status = Disputed],
                 NoReturn,
                 << [name |-> "InvoiceDisputed", invoiceId |-> invoiceId] >>,
                 {})

\* Mutant of CI_disputeInvoice: every pending invoice addressed to the caller
\* is marked disputed along with the one named.
CI_disputeInvoice_DisputesAll(caller, invoiceId) ==
    LET invoice == invoices[invoiceId] IN
    IF invoice.sender = ZeroAddress
    THEN Revert(Storage, InvoiceNotFound(invoiceId))
    ELSE IF invoice.status # Pending
    THEN Revert(Storage, InvalidStatus(invoiceId))
    ELSE IF caller # invoice.recipient
    THEN Revert(Storage, OnlyRecipientCanPay(invoiceId))
    ELSE Success([Storage EXCEPT !.invoices =
                    [i \in IdSpace |->
                        IF invoices[i].recipient = caller
                           /\ invoices[i].status = Pending
                        THEN [invoices[i] EXCEPT !.status = Disputed]
                        ELSE invoices[i]]],
                 NoReturn,
                 << [name |-> "InvoiceDisputed", invoiceId |-> invoiceId] >>,
                 {})

CI_disputeInvoice(caller, invoiceId) ==
    LET invoice == invoices[invoiceId] IN
    IF invoice.sender = ZeroAddress
    THEN Revert(Storage, InvoiceNotFound(invoiceId))
    ELSE IF invoice.status # Pending
    THEN Revert(Storage, InvalidStatus(invoiceId))
    ELSE IF caller # invoice.recipient
    THEN Revert(Storage, OnlyRecipientCanPay(invoiceId))
    ELSE Success([Storage EXCEPT !.invoices[invoiceId].status = Disputed],
                 NoReturn,
                 << [name |-> "InvoiceDisputed", invoiceId |-> invoiceId] >>,
                 {})

CI_getInvoice(caller, invoiceId) ==
    LET invoice == invoices[invoiceId] IN
    IF invoice.sender = ZeroAddress
    THEN Revert(Storage, InvoiceNotFound(invoiceId))
    ELSE Success(Storage,
                 <<invoice.id, invoice.sender, invoice.recipient,
                   invoice.description, invoice.status, invoice.createdAt,
                   invoice.dueDate>>,
                 <<>>, {})

CI_getEncryptedBalance(caller, user) ==
    IF caller # user THEN Revert(Storage, NotAuthorized(caller, 0))
    ELSE Success(Storage, encryptedBalances[user], <<>>, {})

\* Mutant of CI_getEncryptedAmount: only the sender may read the handle.
CI_getEncryptedAmount_SenderOnly(caller, invoiceId) ==
    LET invoice == invoices[invoiceId] IN
    IF invoice.sender = ZeroAddress
    THEN Revert(Storage, InvoiceNotFound(invoiceId))
    ELSE IF caller # invoice.sender
    THEN Revert(Storage, NotAuthorized(caller, invoiceId))
    ELSE Success(Storage, invoice.encryptedAmount, <<>>, {})

CI_getEncryptedAmount(caller, invoiceId) ==
    LET invoice == invoices[invoiceId] IN
    IF invoice.sender = ZeroAddress
    THEN Revert(Storage, InvoiceNotFound(invoiceId))
    ELSE IF caller # invoice.sender /\ caller # invoice.recipient
    THEN Revert(Storage, NotAuthorized(caller, invoiceId))
    ELSE Success(Storage, invoice.encryptedAmount, <<>>, {})

\* ------------------------------------------------------------- SimpleInvoice

\* Mutant of SI_createInvoice: the amount check comes before the recipient
\* check.
SI_createInvoice_AmountFirst(caller, recipient, amount, description, dueDate, ts) ==
    IF amount = 0 THEN Revert(Storage, InvalidAmount)
    ELSE IF recipient = ZeroAddress \/ recipient = caller
    THEN Revert(Storage, InvalidRecipient(recipient))
    ELSE
    LET invoiceId == invoiceCounter
        s1 == [Storage EXCEPT
                 !.invoiceCounter = @ + 1,
                 !.invoices[invoiceId] =
                    [id |-> invoiceId, sender |-> caller,
                     recipient |-> recipient, amount |-> amount,
                     description |-> description, status |-> Pending,
                     createdAt |-> ts,
                     dueDate |-> IF dueDate = 0 THEN ts + THIRTY_DAYS
                                 ELSE dueDate],
                 !.sentInvoices[caller] = Append(@, invoiceId),
                 !.receivedInvoices[recipient] = Append(@, invoiceId)]
    IN  Success(s1, invoiceId,
                << [name |-> "InvoiceCreated", invoiceId |-> invoiceId,
                    sender |-> caller, recipient |-> recipient,
                    amount |-> amount, description |-> description,
                    dueDate |-> dueDate] >>,
                {})

\* Mutant of SI_createInvoice: the amount is not checked.
SI_createInvoice_NoAmountCheck(caller, recipient, amount, description, dueDate, ts) ==
    IF recipient = ZeroAddress \/ recipient = caller
    THEN Revert(Storage, InvalidRecipient(recipient))
    ELSE
    LET invoiceId == invoiceCounter
        s1 == [Storage EXCEPT
                 !.invoiceCounter = @ + 1,
                 !.invoices[invoiceId] =
                    [id |-> invoiceId, sender |-> caller,
                     recipient |-> recipient, amount |-> amount,
                     description |-> description, status |-> Pending,
                     createdAt |-> ts,
                     dueDate |-> IF dueDate = 0 THEN ts + THIRTY_DAYS
                                 ELSE dueDate],
                 !.sentInvoices[caller] = Append(@, invoiceId),
                 !.receivedInvoices[recipient] = Append(@, invoiceId)]
    IN  Success(s1, invoiceId,
                << [name |-> "InvoiceCreated", invoiceId |-> invoiceId,
                    sender |-> caller, recipient |-> recipient,
                    amount |-> amount, description |-> description,
                    dueDate |-> dueDate] >>,
                {})

\* Mutant of SI_createInvoice: the dueDate argument is stored as given, zero
\* included.
SI_createInvoice_DueDateAsGiven(caller, recipient, amount, description, dueDate, ts) ==
    IF recipient = ZeroAddress \/ recipient = caller
    THEN Revert(Storage, InvalidRecipient(recipient))
    ELSE IF amount = 0 THEN Revert(Storage, InvalidAmount)
    ELSE
    LET invoiceId == invoiceCounter
        s1 == [Storage EXCEPT
                 !.invoiceCounter = @ + 1,
                 !.invoices[invoiceId] =
                    [id |-> invoiceId, sender |-> caller,
                     recipient |-> recipient, amount |-> amount,
                     description |-> description, status |-> Pending,
                     createdAt |-> ts, dueDate |-> dueDate],
                 !.sentInvoices[caller] = Append(@, invoiceId),
                 !.receivedInvoices[recipient] = Append(@, invoiceId)]
    IN  Success(s1, invoiceId,
                << [name |-> "InvoiceCreated", invoiceId |-> invoiceId,
                    sender |-> caller, recipient |-> recipient,
                    amount |-> amount, description |-> description,
                    dueDate |-> dueDate] >>,
                {})

SI_createInvoice(caller, recipient, amount, description, dueDate, ts) ==
    IF recipient = ZeroAddress \/ recipient = caller
    THEN Revert(Storage, InvalidRecipient(recipient))
    ELSE IF amount = 0 THEN Revert(Storage, InvalidAmount)
    ELSE
    LET invoiceId == invoiceCounter
        s1 == [Storage EXCEPT
                 !.invoiceCounter = @ + 1,
                 !.invoices[invoiceId] =
                    [id |-> invoiceId, sender |-> caller,
                     recipient |-> recipient, amount |-> amount,
                     description |-> description, status |-> Pending,
                     createdAt |-> ts,
                     dueDate |-> IF dueDate = 0 THEN ts + THIRTY_DAYS
                                 ELSE dueDate],
                 !.sentInvoices[caller] = Append(@, invoiceId),
                 !.receivedInvoices[recipient] = Append(@, invoiceId)]
    IN  Success(s1, invoiceId,
                << [name |-> "InvoiceCreated", invoiceId |-> invoiceId,
                    sender |-> caller, recipient |-> recipient,
                    amount |-> amount, description |-> description,
                    dueDate |-> dueDate] >>,
                {})


\* Mutant of SI_payInvoice: the recipient check comes before the status check.
SI_payInvoice_AuthFirst(caller, invoiceId) ==
    LET invoice == invoices[invoiceId] IN
    IF invoice.sender = ZeroAddress
    THEN Revert(Storage, InvoiceNotFound(invoiceId))
    ELSE IF caller # invoice.recipient
    THEN Revert(Storage, OnlyRecipientCanPay(invoiceId))
    ELSE IF invoice.status # Pending
    THEN Revert(Storage, InvalidStatus(invoiceId))
    ELSE Success([Storage EXCEPT !.invoices[invoiceId].status = Paid],
                 NoReturn,
                 << [name |-> "InvoicePaid", invoiceId |-> invoiceId,
                     payer |-> caller] >>,
                 {})

\* Mutant of SI_payInvoice: InvoicePaid is not emitted.
SI_payInvoice_NoEvent(caller, invoiceId) ==
    LET invoice == invoices[invoiceId] IN
    IF invoice.sender = ZeroAddress
    THEN Revert(Storage, InvoiceNotFound(invoiceId))
    ELSE IF invoice.status # Pending
    THEN Revert(Storage, InvalidStatus(invoiceId))
    ELSE IF caller # invoice.recipient
    THEN Revert(Storage, OnlyRecipientCanPay(invoiceId))
    ELSE Success([Storage EXCEPT !.invoices[invoiceId].status = Paid],
                 NoReturn, <<>>, {})

SI_payInvoice(caller, invoiceId) ==
    LET invoice == invoices[invoiceId] IN
    IF invoice.sender = ZeroAddress
    THEN Revert(Storage, InvoiceNotFound(invoiceId))
    ELSE IF invoice.status # Pending
    THEN Revert(Storage, InvalidStatus(invoiceId))
    ELSE IF caller # invoice.recipient
    THEN Revert(Storage, OnlyRecipientCanPay(invoiceId))
    ELSE Success([Storage EXCEPT !.invoices[invoiceId].status = Paid],
                 NoReturn,
                 << [name |-> "InvoicePaid", invoiceId |-> invoiceId,
                     payer |-> caller] >>,
                 {})


\* Mutant of SI_cancelInvoice: the status check is left out.
SI_cancelInvoice_NoStatusCheck(caller, invoiceId) ==
    LET invoice == invoices[invoiceId] IN
    IF invoice.sender = ZeroAddress
    THEN Revert(Storage, InvoiceNotFound(invoiceId))
    ELSE IF caller # invoice.sender
    THEN Revert(Storage, OnlySenderCanCancel(invoiceId))
    ELSE Success([Storage EXCEPT !.invoices[invoiceId].status = Cancelled],
                 NoReturn,
                 << [name |-> "InvoiceCancelled", invoiceId |-> invoiceId] >>,
                 {})

SI_cancelInvoice(caller, invoiceId) ==
    LET invoice == invoices[invoiceId] IN
    IF invoice.sender = ZeroAddress
    THEN Revert(Storage, InvoiceNotFound(invoiceId))
    ELSE IF invoice.status # Pending
    THEN Revert(Storage, InvalidStatus(invoiceId))
    ELSE IF caller # invoice.sender
    THEN Revert(Storage, OnlySenderCanCancel(invoiceId))
    ELSE Success([Storage EXCEPT !.invoices[invoiceId].status = Cancelled],
                 NoReturn,
                 << [name |-> "InvoiceCancelled", invoiceId |-> invoiceId] >>,
                 {})

\* Mutant of SI_disputeInvoice: the status check is left out.
SI_disputeInvoice_NoStatusCheck(caller, invoiceId) ==
    LET invoice == invoices[invoiceId] IN
    IF invoice.sender = ZeroAddress
    THEN Revert(Storage, InvoiceNotFound(invoiceId))
    ELSE IF caller # invoice.recipient
    THEN Revert(Storage, OnlyRecipientCanPay(invoiceId))
    ELSE Success([Storage EXCEPT !.invoices[invoiceId].status = Disputed],
                 NoReturn,
                 << [name |-> "InvoiceDisputed", invoiceId |-> invoiceId] >>,
                 {})

SI_disputeInvoice(caller, invoiceId) ==
    LET invoice == invoices[invoiceId] IN
    IF invoice.sender = ZeroAddress
    THEN Revert(Storage, InvoiceNotFound(invoiceId))
    ELSE IF invoice.status # Pending
    THEN Revert(Storage, InvalidStatus(invoiceId))
    ELSE IF caller # invoice.recipient
    THEN Revert(Storage, OnlyRecipientCanPay(invoiceId))
    ELSE Success([Storage EXCEPT !.invoices[invoiceId].status = Disputed],
                 NoReturn,
                 << [name |-> "InvoiceDisputed", invoiceId |-> invoiceId] >>,
                 {})

SI_getInvoice(caller, invoiceId) ==
    LET invoice == invoices[invoiceId] IN
    IF invoice.sender = ZeroAddress
    THEN Revert(Storage, InvoiceNotFound(invoiceId))
    ELSE Success(Storage,
                 <<invoice.id, invoice.sender, invoice.recipient,
                   invoice.amount, invoice.description, invoice.status,
                   invoice.createdAt, invoice.dueDate>>,
                 <<>>, {})

\* ------------------------------------------------- the deployed contract's ABI
payInvoice(caller, invoiceId, ts) ==
    IF variant = IM THEN IM_payInvoice(caller, invoiceId, ts)
    ELSE IF variant = CI THEN CI_payInvoice(caller, invoiceId)
    ELSE SI_payInvoice(caller, invoiceId)

cancelInvoice(caller, invoiceId, ts) ==
    IF variant = IM THEN IM_cancelInvoice(caller, invoiceId, ts)
    ELSE IF variant = CI THEN CI_cancelInvoice(caller, invoiceId)
    ELSE SI_cancelInvoice(caller, invoiceId)

\* InvoiceManager has no disputeInvoice.
disputeInvoice(caller, invoiceId) ==
    IF variant = CI THEN CI_disputeInvoice(caller, invoiceId)
    ELSE SI_disputeInvoice(caller, invoiceId)

getInvoice(caller, invoiceId) ==
    IF variant = IM THEN IM_getInvoice(caller, invoiceId)
    ELSE IF variant = CI THEN CI_getInvoice(caller, invoiceId)
    ELSE SI_getInvoice(caller, invoiceId)

\* SimpleInvoice has no getEncryptedAmount.
getEncryptedAmount(caller, invoiceId) ==
    IF variant = IM THEN IM_getEncryptedAmount(caller, invoiceId)
    ELSE CI_getEncryptedAmount(caller, invoiceId)

\* Mutant of getSentInvoices: an address without sent invoices is refused.
getSentInvoices_RevertsOnEmpty(caller, user) ==
    IF sentInvoices[user] = <<>>
    THEN Revert(Storage, InvoiceNotFound(0))
    ELSE Success(Storage, sentInvoices[user], <<>>, {})

\* The list and count getters are the same in the three contracts.
getSentInvoices(caller, user) == Success(Storage, sentInvoices[user], <<>>, {})

getReceivedInvoices(caller, user) ==
    Success(Storage, receivedInvoices[user], <<>>, {})

getInvoiceCount(caller) == Success(Storage, invoiceCounter, <<>>, {})

\* createInvoice with the arguments of all three signatures; each contract
\* reads its own.
createInvoice(caller, recipient, amount, ext, description, dueDate, ts) ==
    IF variant = IM
    THEN IM_createInvoice(caller, recipient, ext, description, ts)
    ELSE IF variant = CI
    THEN CI_createInvoice(caller, recipient, ext, description, dueDate, ts)
    ELSE SI_createInvoice(caller, recipient, amount, description, dueDate, ts)

\* ----------------------------------------------------------------- behaviour
\* The events of the four invoice kinds, which carry an invoice id
\* (InvoiceManager.sol 34-52, 289-303; part_002 34-44).
InvoiceEvents ==
    {"InvoiceCreated", "InvoicePaid", "InvoiceCancelled", "InvoiceDisputed"}

\* The versions of useFhevm; NotLoaded: the page has not been opened.
Demo == "demo"
Singleton == "singleton"
Effect == "effect"
NotLoaded == "none"
HookVersions == {Demo, Singleton, Effect}

Hooks == 1..NumHooks
Attempts == 1..MaxAttempts
SdkNonces == 1..NumNonces

\* A useFhevm instance whose component is not mounted, and the state of
\* CreateInvoice before anything was submitted.
Unmounted ==
    [pc |-> "unmounted", awaits |-> 0, fhevmInstance |-> 0,
     isInitialized |-> FALSE, initError |-> FALSE, outcome |-> "none"]
NoSubmission ==
    [set |-> FALSE, amount |-> 0, encryptedAmount |-> <<>>, inputProof |-> <<>>]

\* State after the constructor of the deployed contract, the page not opened.
Init ==
    /\ variant \in Variants
    /\ now = 1
    /\ invoiceCounter = 0
    /\ invoices = [i \in IdSpace |-> EmptyInvoice]
    /\ sentInvoices = [a \in Addresses |-> <<>>]
    /\ receivedInvoices = [a \in Addresses |-> <<>>]
    /\ encryptedBalances = [a \in Addresses |-> Uninitialized]
    /\ emitted = [id \in IdSpace |-> [k \in InvoiceEvents |-> 0]]
    /\ deposited = 0
    /\ hookVersion = NotLoaded
    /\ globalFhevmInstance = 0
    /\ initPromise = 0
    /\ creation = [k \in Attempts |-> "none"]
    /\ hook = [h \in Hooks |-> Unmounted]
    /\ submitted = NoSubmission

\* block.timestamp: a block with a later timestamp is mined.
MineBlock ==
    /\ now < MaxTime
    /\ now' = now + 1
    /\ UNCHANGED <<variant, invoiceCounter, invoices, sentInvoices,
                   receivedInvoices, encryptedBalances, emitted, deposited>>
    /\ UNCHANGED pageVars

\* The event log after the events of a mined transaction are added to it.
Logged(events) ==
    [id \in IdSpace |->
        [k \in InvoiceEvents |->
            emitted[id][k]
              + Cardinality({i \in DOMAIN events :
                               /\ events[i].name = k
                               /\ events[i].invoiceId = id})]]

\* A transaction with call result r that pays paidIn into the contract, mined
\* in the current block: the storage becomes the result's storage (the
\* storage as it was when r is a revert), the events of r are logged and
\* paidIn is added to the deposits.  The id counter is capped at MaxInvoices.
Mined(r, paidIn) ==
    /\ r.st.invoiceCounter <= MaxInvoices
    /\ emitted' = Logged(r.events)
    /\ deposited' = (deposited + paidIn) % EuintModulus
    /\ invoiceCounter' = r.st.invoiceCounter
    /\ invoices' = r.st.invoices
    /\ sentInvoices' = r.st.sentInvoices
    /\ receivedInvoices' = r.st.receivedInvoices
    /\ encryptedBalances' = r.st.encryptedBalances
    /\ UNCHANGED <<variant, now>>
    /\ UNCHANGED pageVars

\* A transaction that deposits nothing.
Transact(r) == Mined(r, 0)

\* A view call (eth_call) with result r: nothing is mined.
View(r) ==
    /\ r.st = Storage
    /\ UNCHANGED vars

CreateInvoice ==
    \E caller \in Parties, recipient \in Recipients,
       description \in Descriptions :
        \/ /\ variant = IM
           /\ \E ext \in ExternalInputs :
                Transact(IM_createInvoice(caller, recipient, ext, description,
                                          now))
        \/ /\ variant = CI
           /\ \E ext \in ExternalInputs, dueDate \in DueDates :
                Transact(CI_createInvoice(caller, recipient, ext, description,
                                          dueDate, now))
        \/ /\ variant = SI
           /\ \E amount \in Amounts, dueDate \in DueDates :
                Transact(SI_createInvoice(caller, recipient, amount, description,
                                          dueDate, now))

PayInvoice ==
    \E caller \in Users, invoiceId \in IdSpace :
        Transact(payInvoice(caller, invoiceId, now))

CancelInvoice ==
    \E caller \in Users, invoiceId \in IdSpace :
        Transact(cancelInvoice(caller, invoiceId, now))

DisputeInvoice ==
    /\ variant # IM
    /\ \E caller \in Users, invoiceId \in IdSpace :
        Transact(disputeInvoice(caller, invoiceId))

DepositBalance ==
    /\ variant = CI
    /\ \E caller \in Parties, ext \in ExternalInputs :
        LET r == CI_depositBalance(caller, ext)
        IN  Mined(r, IF r.err = NoError THEN ext.val ELSE 0)

GetInvoice ==
    \E caller \in Users, invoiceId \in IdSpace :
        View(getInvoice(caller, invoiceId))

GetEncryptedAmount ==
    /\ variant # SI
    /\ \E caller \in Users, invoiceId \in IdSpace :
        View(getEncryptedAmount(caller, invoiceId))

GetEncryptedBalance ==
    /\ variant = CI
    /\ \E caller \in Users, user \in Addresses :
        View(CI_getEncryptedBalance(caller, user))

GetSentInvoices ==
    \E caller \in Users, user \in Addresses :
        View(getSentInvoices(caller, user))

GetReceivedInvoices ==
    \E caller \in Users, user \in Addresses :
        View(getReceivedInvoices(caller, user))

GetInvoiceCount ==
    \E caller \in Users : View(getInvoiceCount(caller))

Next ==
    \/ MineBlock
    \/ CreateInvoice
    \/ PayInvoice
    \/ CancelInvoice
    \/ DisputeInvoice
    \/ DepositBalance
    \/ GetInvoice
    \/ GetEncryptedAmount
    \/ GetEncryptedBalance
    \/ GetSentInvoices
    \/ GetReceivedInvoices
    \/ GetInvoiceCount

Spec == Init /\ [][Next]_vars

\* ------------------------------------------------------------------ the page
\* Demo mode flag of the demo version (useFhevm.ts 11).
DEMO_MODE == TRUE

\* The amounts a user enters, as the bigint onSubmit makes of them: one of
\* one hexadecimal digit and one of two.
FormAmounts == {MaxAmount, 16 + MaxAmount}

\* amount.toString(16): the hexadecimal digits, most significant first.
RECURSIVE toString16(_)
toString16(n) ==
    IF n < 16 THEN <<n>> ELSE Append(toString16(n \div 16), n % 16)

\* s.padStart(len, d)
padStart(s, len, d) ==
    IF Len(s) >= len THEN s
    ELSE [i \in 1..len |->
             IF i <= len - Len(s) THEN d ELSE s[i - (len - Len(s))]]

\* The mock of encryptAmount (useFhevm.ts 65-68), the strings without their
\* '0x', a digit per character.
MockEncryption(amount) ==
    [encryptedAmount |-> padStart(toString16(amount), HandleDigits, 0),
     inputProof |-> [i \in 1..(2 * ProofBytes) |-> 0]]

\* input.encrypt() of the SDK (useFhevm.ts 73-80, 227-239): a handle and its
\* proof, byte strings that tell nothing of the amount; the model has one
\* pair for each nonce.
SdkEncryption(nonce) ==
    [encryptedAmount |-> [i \in 1..HandleDigits |-> (nonce + i) % 16],
     inputProof |-> [i \in 1..(2 * ProofBytes) |-> (nonce + 2 * i) % 16]]

\* encryptAmount of hook h, the SDK drawing nonce.  The singleton version
\* without an instance calls initialize() first (useFhevm.ts 213-217); that
\* call is the action initialize, and the result here says so.
encryptAmount(h, amount, nonce) ==
    IF hookVersion = Demo
    THEN IF DEMO_MODE \/ hook[h].fhevmInstance = 0
         THEN [kind |-> "returned", sdk |-> FALSE, result |-> MockEncryption(amount)]
         ELSE [kind |-> "returned", sdk |-> TRUE, result |-> SdkEncryption(nonce)]
    ELSE IF hook[h].fhevmInstance = 0
    THEN [kind |-> IF hookVersion = Singleton THEN "initializes" ELSE "threw",
          sdk |-> FALSE, result |-> MockEncryption(0)]
    ELSE [kind |-> "returned", sdk |-> TRUE, result |-> SdkEncryption(nonce)]

\* The page is opened: it is built with one of the versions of the hook.
LoadPage ==
    /\ hookVersion = NotLoaded
    /\ hookVersion' \in HookVersions
    /\ UNCHANGED <<globalFhevmInstance, initPromise, creation, hook,
                   submitted>>
    /\ UNCHANGED contractVars

\* A component that uses the hook is mounted: the first render, with the
\* initial values of its useState (useFhevm.ts 14-15, 133-135; part_003
\* 577-579).  The demo version has no effect to run.
Mount(h) ==
    /\ hookVersion # NotLoaded
    /\ hook[h].pc = "unmounted"
    /\ hook' = [hook EXCEPT ![h] =
                  IF hookVersion = Demo
                  THEN [Unmounted EXCEPT !.pc = "idle",
                                         !.isInitialized = DEMO_MODE]
                  ELSE IF hookVersion = Singleton
                  THEN [Unmounted EXCEPT !.pc = "rendered"]
                  ELSE [Unmounted EXCEPT
                           !.pc = "rendered",
                           !.fhevmInstance = globalFhevmInstance,
                           !.isInitialized = (globalFhevmInstance # 0)]]
    /\ UNCHANGED <<hookVersion, globalFhevmInstance, initPromise, creation,
                   submitted>>
    /\ UNCHANGED contractVars

\* The component is unmounted; its React state is gone.
Unmount(h) ==
    /\ hook[h].pc = "idle"
    /\ hook' = [hook EXCEPT ![h] = Unmounted]
    /\ UNCHANGED <<hookVersion, globalFhevmInstance, initPromise, creation,
                   submitted>>
    /\ UNCHANGED contractVars

\* The id of the next creation: they are numbered as they start.
NextAttempt == Cardinality({k \in Attempts : creation[k] # "none"}) + 1

\* Mutant of initialize: a call that finds no instance starts a creation
\* whether or not one is in progress.
initialize_NoPromiseCheck(h) ==
    /\ hookVersion \in {Singleton, Effect}
    /\ \/ hook[h].pc = "rendered"
       \/ hookVersion = Singleton /\ hook[h].pc = "idle"
    /\ IF globalFhevmInstance # 0
       THEN /\ hook' = [hook EXCEPT ![h] =
                          [@ EXCEPT !.pc = "idle",
                                    !.fhevmInstance = globalFhevmInstance,
                                    !.isInitialized = TRUE,
                                    !.outcome = "returned"]]
            /\ UNCHANGED <<initPromise, creation>>
       ELSE /\ NextAttempt \in Attempts
            /\ creation' = [creation EXCEPT ![NextAttempt] = "preparing"]
            /\ initPromise' = NextAttempt
            /\ hook' = [hook EXCEPT ![h] =
                          [@ EXCEPT !.pc = "starting", !.awaits = NextAttempt,
                                    !.outcome = "none"]]
    /\ UNCHANGED <<hookVersion, globalFhevmInstance, submitted>>
    /\ UNCHANGED contractVars

\* initialize() of the singleton version (useFhevm.ts 137-154, 191-192;
\* part_003 337-354, 381-382), called by the effect on mount (204-208), by
\* encryptAmount and decryptAmount (216, 252) or by the component, and init()
\* of the effect version (part_003 582-611), called once on mount: the
\* synchronous part up to the first await.  Starting a creation runs the
\* inner async function up to its own first await.
initialize(h) ==
    /\ hookVersion \in {Singleton, Effect}
    /\ \/ hook[h].pc = "rendered"
       \/ hookVersion = Singleton /\ hook[h].pc = "idle"
    /\ IF globalFhevmInstance # 0
       THEN /\ hook' = [hook EXCEPT ![h] =
                          [@ EXCEPT !.pc = "idle",
                                    !.fhevmInstance = globalFhevmInstance,
                                    !.isInitialized = TRUE,
                                    !.outcome = "returned"]]
            /\ UNCHANGED <<initPromise, creation>>
       ELSE IF initPromise # 0
       THEN /\ hook' = [hook EXCEPT ![h] =
                          [@ EXCEPT !.pc = "waiting", !.awaits = initPromise,
                                    !.outcome = "none"]]
            /\ UNCHANGED <<initPromise, creation>>
       ELSE /\ NextAttempt \in Attempts
            /\ creation' = [creation EXCEPT ![NextAttempt] = "preparing"]
            /\ initPromise' = NextAttempt
            /\ hook' = [hook EXCEPT ![h] =
                          [@ EXCEPT !.pc = "starting", !.awaits = NextAttempt,
                                    !.outcome = "none"]]
    /\ UNCHANGED <<hookVersion, globalFhevmInstance, submitted>>
    /\ UNCHANGED contractVars

\* The inner async function of creation k comes to createInstance and calls
\* it: the import, the provider and initFhevm() or initSDK() went well
\* (useFhevm.ts 159-176; part_003 358-368, 603-607).
callCreateInstance(k) ==
    /\ creation[k] = "preparing"
    /\ creation' = [creation EXCEPT ![k] = "creating"]
    /\ UNCHANGED <<hookVersion, globalFhevmInstance, initPromise, hook,
                   submitted>>
    /\ UNCHANGED contractVars

\* createInstance of creation k returns: the instance is stored in the
\* module-level variable and the promise is fulfilled with it (useFhevm.ts
\* 181-183; part_003 370-372, 608-610).
instanceCreated(k) ==
    /\ creation[k] = "creating"
    /\ creation' = [creation EXCEPT ![k] = "fulfilled"]
    /\ globalFhevmInstance' = k
    /\ UNCHANGED <<hookVersion, initPromise, hook, submitted>>
    /\ UNCHANGED contractVars

\* Mutant of creationFails: the catch of the inner function leaves initPromise
\* as it is.
creationFails_NoReset(k) ==
    /\ creation[k] \in {"preparing", "creating"}
    /\ creation' = [creation EXCEPT ![k] = "rejected"]
    /\ UNCHANGED <<hookVersion, globalFhevmInstance, initPromise, hook,
                   submitted>>
    /\ UNCHANGED contractVars

\* An await of creation k throws.  The singleton version catches it inside
\* the inner function, sets initPromise to null and throws again (useFhevm.ts
\* 184-188; part_003 373-377); the inner function of the effect version has
\* no catch (part_003 601-611).  Either way the promise is rejected.
creationFails(k) ==
    /\ creation[k] \in {"preparing", "creating"}
    /\ creation' = [creation EXCEPT ![k] = "rejected"]
    /\ initPromise' = IF hookVersion = Singleton THEN 0 ELSE initPromise
    /\ UNCHANGED <<hookVersion, globalFhevmInstance, hook, submitted>>
    /\ UNCHANGED contractVars

\* The call of hook h goes on after its await, the promise it awaits being
\* settled (useFhevm.ts 147-150, 192-200; part_003 347-350, 382-390, 590-598,
\* 613-620).  Only the starter of the effect version sets initPromise to null,
\* and only the starter of the singleton version clears initError.
resume(h) ==
    /\ hook[h].pc \in {"waiting", "starting"}
    /\ creation[hook[h].awaits] \in {"fulfilled", "rejected"}
    /\ IF creation[hook[h].awaits] = "fulfilled"
       THEN /\ hook' = [hook EXCEPT ![h] =
                          [@ EXCEPT
                             !.pc = "idle",
                             !.fhevmInstance = hook[h].awaits,
                             !.isInitialized = TRUE,
                             !.initError =
                                IF hookVersion = Singleton
                                   /\ hook[h].pc = "starting"
                                THEN FALSE ELSE @,
                             !.outcome = "returned"]]
            /\ UNCHANGED initPromise
       ELSE /\ hook' = [hook EXCEPT ![h] =
                          [@ EXCEPT
                             !.pc = "idle",
                             !.initError =
                                IF hookVersion = Singleton
                                   /\ hook[h].pc = "waiting"
                                THEN @ ELSE TRUE,
                             !.outcome = "failed"]]
            /\ initPromise' = IF hookVersion = Effect
                                 /\ hook[h].pc = "starting"
                              THEN 0 ELSE initPromise
    /\ UNCHANGED <<hookVersion, globalFhevmInstance, creation, submitted>>
    /\ UNCHANGED contractVars

\* CreateInvoice.onSubmit (CreateInvoice.tsx 30-64) of a component whose hook
\* says isInitialized: the amount is encrypted with encryptAmount and the
\* result passed to createInvoice.  When encryptAmount throws, nothing is
\* submitted.
onSubmit(h) ==
    /\ hook[h].pc # "unmounted"
    /\ hook[h].isInitialized
    /\ \E amount \in FormAmounts, nonce \in SdkNonces :
         LET e == encryptAmount(h, amount, nonce) IN
         /\ e.kind = "returned"
         /\ submitted' = [set |-> TRUE, amount |-> amount,
                          encryptedAmount |-> e.result.encryptedAmount,
                          inputProof |-> e.result.inputProof]
    /\ UNCHANGED <<hookVersion, globalFhevmInstance, initPromise, creation,
                   hook>>
    /\ UNCHANGED contractVars

NextFhevm ==
    \/ LoadPage
    \/ \E h \in Hooks : Mount(h)
    \/ \E h \in Hooks : Unmount(h)
    \/ \E h \in Hooks : initialize(h)
    \/ \E k \in Attempts : callCreateInstance(k)
    \/ \E k \in Attempts : instanceCreated(k)
    \/ \E k \in Attempts : creationFails(k)
    \/ \E h \in Hooks : resume(h)
    \/ \E h \in Hooks : onSubmit(h)

\* The page talks to an InvoiceManager: onSubmit calls its createInvoice of
\* four arguments (CreateInvoice.tsx 59-64).
InitFhevm == Init /\ variant = IM

SpecFhevm == InitFhevm /\ [][NextFhevm]_vars

\* ------------------------------------------------------------------- helpers
Exists(invoiceId) == invoices[invoiceId].sender # ZeroAddress
Terminal == {Paid, Cancelled, Disputed}
Unchanged(r) == r.st = Storage

\* ===================================================================== claims

\* C1: an invoice's status changes at most once: a created invoice starts
\* Pending, a status only ever changes from Pending to Paid, Cancelled or
\* Disputed, and a status that is no longer Pending never changes again,
\* whatever calls follow.
C1_StatusChangesAtMostOnce ==
    [][\A id \in IdSpace :
          /\ (~Exists(id) /\ Exists(id)') => invoices'[id].status = Pending
          /\ invoices[id].status # Pending
                => invoices'[id].status = invoices[id].status
          /\ invoices'[id].status # invoices[id].status
                => /\ Exists(id)
                   /\ invoices'[id].status \in Terminal]_vars

\* Two invoices that took different exits from Pending.
C1_Witness ==
    \E i, j \in IdSpace :
        /\ invoices[i].status = Paid
        /\ invoices[j].status \in {Cancelled, Disputed}

\* C2: a successful payInvoice / disputeInvoice is a call by the recipient on
\* a Pending invoice and sets Paid / Disputed; a successful cancelInvoice is a
\* call by the sender on a Pending invoice and sets Cancelled; and every step
\* that changes a status is such a call by that caller.
C2_SuccessImpliesRole ==
    \A caller \in Users, id \in IdSpace :
        LET p == payInvoice(caller, id, now)
            c == cancelInvoice(caller, id, now)
            d == disputeInvoice(caller, id)
        IN  /\ p.err = NoError
                => /\ caller = invoices[id].recipient
                   /\ invoices[id].status = Pending
                   /\ p.st.invoices[id].status = Paid
            /\ c.err = NoError
                => /\ caller = invoices[id].sender
                   /\ invoices[id].status = Pending
                   /\ c.st.invoices[id].status = Cancelled
            /\ (variant # IM /\ d.err = NoError)
                => /\ caller = invoices[id].recipient
                   /\ invoices[id].status = Pending
                   /\ d.st.invoices[id].status = Disputed

C2_StatusStepByRole ==
    \A id \in IdSpace :
        invoices'[id].status # invoices[id].status
            => \/ /\ invoices'[id].status = Paid
                  /\ payInvoice(invoices[id].recipient, id, now).err = NoError
                  /\ Storage' = payInvoice(invoices[id].recipient, id, now).st
               \/ /\ invoices'[id].status = Cancelled
                  /\ cancelInvoice(invoices[id].sender, id, now).err = NoError
                  /\ Storage' = cancelInvoice(invoices[id].sender, id, now).st
               \/ /\ invoices'[id].status = Disputed
                  /\ variant # IM
                  /\ disputeInvoice(invoices[id].recipient, id).err = NoError
                  /\ Storage' = disputeInvoice(invoices[id].recipient, id).st

\* C2 (statement): in every reachable state the successful calls are those of
\* the designated caller on a Pending invoice, and only they change a status.
C2_OnlyDesignatedCaller ==
    /\ []C2_SuccessImpliesRole
    /\ [][C2_StatusStepByRole]_vars

\* The recipient has paid one invoice and a sender has cancelled another.
C2_Witness ==
    \E i, j \in IdSpace :
        /\ invoices[i].status = Paid
        /\ invoices[j].status = Cancelled
        /\ invoices[i].recipient # invoices[j].sender

\* C3 as stated: on every existing invoice, whatever its status, pay and
\* dispute by a non-recipient and cancel by a non-sender fail with the
\* authorization error.
C3_Original ==
    \A caller \in Users, id \in IdSpace :
        Exists(id) =>
            /\ caller # invoices[id].recipient
                => /\ payInvoice(caller, id, now).err = OnlyRecipientCanPay(id)
                   /\ variant # IM
                        => disputeInvoice(caller, id).err = OnlyRecipientCanPay(id)
            /\ caller # invoices[id].sender
                => cancelInvoice(caller, id, now).err = OnlySenderCanCancel(id)

\* C3 amended: the same on every existing invoice that is still Pending (on
\* any other status the status check comes first).
C3_UnauthorizedOnPending ==
    \A caller \in Users, id \in IdSpace :
        (Exists(id) /\ invoices[id].status = Pending) =>
            /\ caller # invoices[id].recipient
                => /\ payInvoice(caller, id, now).err = OnlyRecipientCanPay(id)
                   /\ Unchanged(payInvoice(caller, id, now))
                   /\ variant # IM
                        => /\ disputeInvoice(caller, id).err
                                = OnlyRecipientCanPay(id)
                           /\ Unchanged(disputeInvoice(caller, id))
            /\ caller # invoices[id].sender
                => /\ cancelInvoice(caller, id, now).err = OnlySenderCanCancel(id)
                   /\ Unchanged(cancelInvoice(caller, id, now))

\* A Pending invoice on which the sender's payInvoice, the recipient's
\* cancelInvoice and a bystander's calls are refused.
C3_Witness ==
    \E id \in IdSpace, other \in Users :
        /\ Exists(id) /\ invoices[id].status = Pending
        /\ other \notin {invoices[id].sender, invoices[id].recipient}
        /\ payInvoice(invoices[id].sender, id, now).err = OnlyRecipientCanPay(id)
        /\ cancelInvoice(invoices[id].recipient, id, now).err
              = OnlySenderCanCancel(id)
        /\ payInvoice(other, id, now).err = OnlyRecipientCanPay(id)
        /\ cancelInvoice(other, id, now).err = OnlySenderCanCancel(id)

\* C4: on an existing invoice that is not Pending, payInvoice, cancelInvoice
\* and disputeInvoice fail with the invalid-status error for every caller and
\* leave the storage unchanged.
C4_InvalidStatusOnTerminal ==
    \A caller \in Users, id \in IdSpace :
        (Exists(id) /\ invoices[id].status # Pending) =>
            /\ payInvoice(caller, id, now).err = InvalidStatus(id)
            /\ Unchanged(payInvoice(caller, id, now))
            /\ cancelInvoice(caller, id, now).err = InvalidStatus(id)
            /\ Unchanged(cancelInvoice(caller, id, now))
            /\ variant # IM
                => /\ disputeInvoice(caller, id).err = InvalidStatus(id)
                   /\ Unchanged(disputeInvoice(caller, id))

\* The recipient has paid; a second payInvoice and a cancelInvoice by the
\* sender are both refused with the invalid-status error.
C4_Witness ==
    \E id \in IdSpace :
        /\ invoices[id].status = Paid
        /\ payInvoice(invoices[id].sender, id, now).err = InvalidStatus(id)
        /\ cancelInvoice(invoices[id].sender, id, now).err = InvalidStatus(id)
        /\ invoices[id].sender # invoices[id].recipient

\* C5: with an id that was never created (id >= getInvoiceCount()), payInvoice,
\* cancelInvoice, disputeInvoice, getInvoice and getEncryptedAmount fail with
\* InvoiceNotFound for every caller, ahead of the status and authorization
\* checks, and change nothing; InvoiceManager's error carries the queried id.
C5_NotFound ==
    \A caller \in Users, id \in IdSpace :
        id >= invoiceCounter =>
            /\ payInvoice(caller, id, now).err = InvoiceNotFound(id)
            /\ Unchanged(payInvoice(caller, id, now))
            /\ cancelInvoice(caller, id, now).err = InvoiceNotFound(id)
            /\ Unchanged(cancelInvoice(caller, id, now))
            /\ variant # IM
                => /\ disputeInvoice(caller, id).err = InvoiceNotFound(id)
                   /\ Unchanged(disputeInvoice(caller, id))
            /\ getInvoice(caller, id).err = InvoiceNotFound(id)
            /\ Unchanged(getInvoice(caller, id))
            /\ variant # SI
                => /\ getEncryptedAmount(caller, id).err = InvoiceNotFound(id)
                   /\ Unchanged(getEncryptedAmount(caller, id))
            /\ variant = IM
                => getInvoice(caller, id).err.args = <<id>>

\* InvoiceManager with one invoice created: the next id is not found, and the
\* error names that id.
C5_Witness ==
    /\ variant = IM
    /\ invoiceCounter = 1
    /\ \A caller \in Users :
        /\ getInvoice(caller, 1).err = Error("InvoiceNotFound", <<1>>)
        /\ getEncryptedAmount(caller, 1).err = Error("InvoiceNotFound", <<1>>)
        /\ payInvoice(caller, 1, now).err = Error("InvoiceNotFound", <<1>>)

\* Every argument list a caller can give createInvoice.
CreateArgs ==
    [caller : Users, recipient : Addresses, amount : Amounts,
     ext : ExternalInputs, description : Descriptions, dueDate : DueDates]
Create(a) ==
    createInvoice(a.caller, a.recipient, a.amount, a.ext, a.description,
                  a.dueDate, now)

\* C6: a successful createInvoice raises getInvoiceCount() by exactly 1,
\* appends the returned id as the last element of the caller's sent list and
\* of the recipient's received list, and the new invoice is Pending with
\* sender = caller; every step that changes the count is such a creation.
C6_CreateEffect ==
    \A a \in CreateArgs :
        LET r == Create(a) IN
        r.err = NoError =>
            /\ r.st.invoiceCounter = invoiceCounter + 1
            /\ r.st.sentInvoices[a.caller]
                  = Append(sentInvoices[a.caller], r.ret)
            /\ r.st.receivedInvoices[a.recipient]
                  = Append(receivedInvoices[a.recipient], r.ret)
            /\ r.st.invoices[r.ret].status = Pending
            /\ r.st.invoices[r.ret].sender = a.caller
            /\ r.st.invoices[r.ret].recipient = a.recipient

C6_CreateStep ==
    invoiceCounter' # invoiceCounter =>
        LET id == invoiceCounter
            new == invoices'[id]
        IN  /\ invoiceCounter' = invoiceCounter + 1
            /\ \A caller \in Users :
                 getInvoiceCount(caller)'.ret = getInvoiceCount(caller).ret + 1
            /\ new.status = Pending
            /\ new.sender \in Users
            /\ sentInvoices'[new.sender] = Append(sentInvoices[new.sender], id)
            /\ receivedInvoices'[new.recipient]
                  = Append(receivedInvoices[new.recipient], id)

\* C6 (statement): the effect of a successful createInvoice in every
\* reachable state, and every change of the count being such a creation.
C6_CreateAppends ==
    /\ []C6_CreateEffect
    /\ [][C6_CreateStep]_vars

\* One account has sent two invoices and another has received both.
C6_Witness ==
    \E a, b \in Users :
        /\ invoiceCounter = 2
        /\ sentInvoices[a] = <<0, 1>>
        /\ receivedInvoices[b] = <<0, 1>>
        /\ invoices[1].status = Pending /\ invoices[1].sender = a

\* C7: createInvoice with recipient = address(0) or recipient = caller fails
\* with InvalidRecipient in every variant whatever the other arguments (a zero
\* amount, an input proof that does not verify), and changes nothing.
C7_InvalidRecipient ==
    \A a \in CreateArgs :
        (a.recipient = ZeroAddress \/ a.recipient = a.caller) =>
            /\ Create(a).err = InvalidRecipient(a.recipient)
            /\ Unchanged(Create(a))

\* With invoices already stored: a self-addressed zero-amount invoice in
\* SimpleInvoice, or one with a bad proof in an encrypted variant, is refused
\* with InvalidRecipient.
C7_Witness ==
    /\ invoiceCounter = 1
    /\ \E a \in CreateArgs :
        /\ a.recipient = a.caller
        /\ a.amount = 0
        /\ ~a.ext.proofOk
        /\ Create(a).err.name = "InvalidRecipient"
        /\ Create(a).st.invoiceCounter = 1

\* C8: ids are sequential and never reused: the existing invoices (sender #
\* address(0)) are exactly the ids 0 .. getInvoiceCount()-1, each record's id
\* field is its key, a successful createInvoice returns the current count (so
\* the k-th returns k-1), a failed one leaves the count alone, and the count
\* never decreases and an id once given stays with its record.
C8_IdsAreTheRange ==
    /\ \A id \in IdSpace :
        /\ Exists(id) <=> id < invoiceCounter
        /\ Exists(id) => invoices[id].id = id
    /\ \A a \in CreateArgs :
        LET r == Create(a) IN
        /\ r.err = NoError => r.ret = invoiceCounter
        /\ r.err # NoError => r.st.invoiceCounter = invoiceCounter

C8_IdStep ==
    /\ invoiceCounter' >= invoiceCounter
    /\ \A id \in IdSpace : Exists(id) => invoices'[id].id = invoices[id].id

\* C8 (statement): the existing ids are always 0 .. count-1 with id = key, and
\* no step lowers the count or rewrites an id.
C8_SequentialIds ==
    /\ []C8_IdsAreTheRange
    /\ [][C8_IdStep]_vars

\* Two invoices created: they are ids 0 and 1 and id 2 does not exist.
C8_Witness ==
    /\ invoiceCounter = 2
    /\ invoices[0].id = 0 /\ Exists(0)
    /\ invoices[1].id = 1 /\ Exists(1)
    /\ ~Exists(2)

\* The record without the fields that may change after creation: status, and
\* updatedAt in InvoiceManager.
Frozen(invoice) ==
    IF variant = IM
    THEN [invoice EXCEPT !.status = Pending, !.updatedAt = 0]
    ELSE [invoice EXCEPT !.status = Pending]

\* C9: once an invoice exists, its id, sender, recipient, description,
\* createdAt, amount and dueDate never change; only status (and updatedAt in
\* InvoiceManager) can.
C9_FieldsImmutable ==
    [][\A id \in IdSpace :
          Exists(id) => Frozen(invoices'[id]) = Frozen(invoices[id])]_vars

\* An InvoiceManager invoice paid in a later block than it was created in.
C9_Witness ==
    /\ variant = IM
    /\ \E id \in IdSpace :
        /\ invoices[id].status = Paid
        /\ invoices[id].updatedAt > invoices[id].createdAt

\* C10: in ConfidentialInvoice, payInvoice by the recipient of a Pending
\* invoice whose encrypted balance holds a value below the invoice amount
\* succeeds, sets Paid, and leaves the plaintext of the payer's and of the
\* invoice sender's balance as they were.
C10_InsufficientPaysZero ==
    variant = CI =>
        \A id \in IdSpace :
            LET invoice == invoices[id]
                payer == invoice.recipient
                r == CI_payInvoice(payer, id)
            IN  ( /\ Exists(id)
                  /\ invoice.status = Pending
                  /\ FHE_isInitialized(encryptedBalances[payer])
                  /\ encryptedBalances[payer].val < invoice.encryptedAmount.val )
                => /\ r.err = NoError
                   /\ r.st.invoices[id].status = Paid
                   /\ r.st.encryptedBalances[payer].val
                        = encryptedBalances[payer].val
                   /\ r.st.encryptedBalances[invoice.sender].val
                        = encryptedBalances[invoice.sender].val

\* A Pending invoice of amount 1 whose recipient has deposited 0: paying it
\* succeeds and moves nothing.
C10_Witness ==
    /\ variant = CI
    /\ \E id \in IdSpace :
        /\ Exists(id) /\ invoices[id].status = Pending
        /\ invoices[id].encryptedAmount.val = 1
        /\ encryptedBalances[invoices[id].recipient] = Enc(0)
        /\ CI_payInvoice(invoices[id].recipient, id).err = NoError
        /\ CI_payInvoice(invoices[id].recipient, id).st.encryptedBalances[
              invoices[id].recipient].val = 0

\* C11 as stated: in ConfidentialInvoice, payInvoice by the recipient of a
\* Pending invoice succeeds whatever the state of the payer's balance.
C11_Original ==
    variant = CI =>
        \A id \in IdSpace :
            (Exists(id) /\ invoices[id].status = Pending)
                => CI_payInvoice(invoices[id].recipient, id).err = NoError

\* C11 amended: payInvoice by the recipient of a Pending invoice succeeds
\* exactly when the payer's balance handle is set (by a deposit or a payment
\* received), whatever the value behind it, and with a value below the amount
\* it moves nothing; with a handle never set it reverts with
\* InsufficientBalance and changes nothing.
C11_RevertsOnlyOnUnsetBalance ==
    variant = CI =>
        \A id \in IdSpace :
            LET invoice == invoices[id]
                payer == invoice.recipient
                r == CI_payInvoice(payer, id)
            IN  (Exists(id) /\ invoice.status = Pending) =>
                  IF FHE_isInitialized(encryptedBalances[payer])
                  THEN /\ r.err = NoError
                       /\ r.st.invoices[id].status = Paid
                       /\ encryptedBalances[payer].val < invoice.encryptedAmount.val
                            => r.st.encryptedBalances[payer].val
                                 = encryptedBalances[payer].val
                  ELSE /\ r.err = InsufficientBalance
                       /\ Unchanged(r)

\* Two Pending invoices: the recipient of one holds a deposit of 0 against an
\* amount of 1 and its payInvoice succeeds; the recipient of the other has no
\* balance handle and its payInvoice reverts.
C11_Witness ==
    /\ variant = CI
    /\ \E i, j \in IdSpace :
        /\ Exists(i) /\ invoices[i].status = Pending
        /\ Exists(j) /\ invoices[j].status = Pending
        /\ invoices[i].encryptedAmount.val = 1
        /\ encryptedBalances[invoices[i].recipient] = Enc(0)
        /\ CI_payInvoice(invoices[i].recipient, i).err = NoError
        /\ ~FHE_isInitialized(encryptedBalances[invoices[j].recipient])
        /\ CI_payInvoice(invoices[j].recipient, j).err = InsufficientBalance

\* C12: in ConfidentialInvoice, payInvoice by the recipient of a Pending
\* invoice whose balance holds at least the invoice amount succeeds, lowers
\* the payer's balance by exactly the amount and raises the invoice sender's
\* balance by exactly the amount (a sender without a balance ends with the
\* amount); the balances are compared as the integers they stand for.
C12_ExactTransfer ==
    variant = CI =>
        \A id \in IdSpace :
            LET invoice == invoices[id]
                payer == invoice.recipient
                amount == invoice.encryptedAmount.val
                before == IF FHE_isInitialized(encryptedBalances[invoice.sender])
                          THEN encryptedBalances[invoice.sender].val
                          ELSE 0
                r == CI_payInvoice(payer, id)
            IN  ( /\ Exists(id)
                  /\ invoice.status = Pending
                  /\ FHE_isInitialized(encryptedBalances[payer])
                  /\ encryptedBalances[payer].val >= amount )
                => /\ r.err = NoError
                   /\ r.st.encryptedBalances[payer].val
                        = encryptedBalances[payer].val - amount
                   /\ r.st.encryptedBalances[invoice.sender].val
                        = before + amount

\* The grants of call result r name, on an invoice's amount handle, only the
\* invoice's sender, its recipient and the contract, and on a user's balance
\* handle only that user and the contract; a reverted call grants nothing.
GrantsToPartiesOnly(r) ==
    /\ r.err # NoError => r.grants = {}
    /\ \A g \in r.grants :
        /\ g.kind \in {"amount", "balance"}
        /\ g.kind = "amount"
             => g.to \in {This, r.st.invoices[g.of].sender,
                          r.st.invoices[g.of].recipient}
        /\ g.kind = "balance" => g.to \in {This, g.of}

\* C14: whatever the state reached and whatever call is made in it, by any
\* caller with any arguments, FHE.allow / FHE.allowThis on an invoice's
\* encrypted amount name only the invoice's sender, its recipient and the
\* contract, and on a user's encrypted balance only that user and the contract.
C14_GrantsOnlyToParties ==
    /\ \A a \in CreateArgs : GrantsToPartiesOnly(Create(a))
    /\ \A caller \in Users, id \in IdSpace :
        /\ GrantsToPartiesOnly(payInvoice(caller, id, now))
        /\ GrantsToPartiesOnly(cancelInvoice(caller, id, now))
        /\ variant # IM => GrantsToPartiesOnly(disputeInvoice(caller, id))
        /\ GrantsToPartiesOnly(getInvoice(caller, id))
        /\ variant # SI => GrantsToPartiesOnly(getEncryptedAmount(caller, id))
    /\ \A caller \in Users, user \in Addresses :
        /\ GrantsToPartiesOnly(getSentInvoices(caller, user))
        /\ GrantsToPartiesOnly(getReceivedInvoices(caller, user))
        /\ variant = CI
             => GrantsToPartiesOnly(CI_getEncryptedBalance(caller, user))
    /\ \A caller \in Users :
        /\ GrantsToPartiesOnly(getInvoiceCount(caller))
        /\ variant = CI
             => \A ext \in ExternalInputs :
                  GrantsToPartiesOnly(CI_depositBalance(caller, ext))

\* ConfidentialInvoice after one payment, with a second invoice Pending: its
\* payInvoice grants the two new balances to their owners and the contract,
\* and a createInvoice grants the amount to sender, recipient and contract.
C14_Witness ==
    /\ variant = CI
    /\ \E i, j \in IdSpace :
        LET r == CI_payInvoice(invoices[j].recipient, j) IN
        /\ invoices[i].status = Paid
        /\ Exists(j) /\ invoices[j].status = Pending
        /\ r.err = NoError
        /\ r.grants = {Grant("balance", invoices[j].recipient, This),
                       Grant("balance", invoices[j].recipient,
                             invoices[j].recipient),
                       Grant("balance", invoices[j].sender, This),
                       Grant("balance", invoices[j].sender, invoices[j].sender)}
    /\ \E a \in CreateArgs :
        /\ Create(a).err = NoError
        /\ Create(a).grants = {Grant("amount", invoiceCounter, This),
                               Grant("amount", invoiceCounter, a.caller),
                               Grant("amount", invoiceCounter, a.recipient)}

\* C15: on an existing invoice of any status, getEncryptedAmount returns the
\* stored handle to the invoice's sender and to its recipient and fails with
\* NotAuthorized for every other caller; getEncryptedBalance(user) returns the
\* user's balance handle when the caller is that user and fails with
\* NotAuthorized for every other caller.
C15_HandleOnlyToParties ==
    /\ variant # SI =>
        \A caller \in Users, id \in IdSpace :
            LET r == getEncryptedAmount(caller, id) IN
            Exists(id) =>
                /\ Unchanged(r)
                /\ IF caller \in {invoices[id].sender, invoices[id].recipient}
                   THEN /\ r.err = NoError
                        /\ r.ret = invoices[id].encryptedAmount
                   ELSE r.err = NotAuthorized(caller, id)
    /\ variant = CI =>
        \A caller \in Users, user \in Addresses :
            LET r == CI_getEncryptedBalance(caller, user) IN
            /\ Unchanged(r)
            /\ IF caller = user
               THEN /\ r.err = NoError
                    /\ r.ret = encryptedBalances[user]
               ELSE r.err = Error("NotAuthorized", <<>>)

\* A Paid ConfidentialInvoice invoice: sender and recipient still get the
\* amount handle and a bystander does not; the payer reads its own balance and
\* is refused the sender's.
C15_Witness ==
    /\ variant = CI
    /\ \E id \in IdSpace, other \in Users :
        LET sender == invoices[id].sender
            recipient == invoices[id].recipient
        IN  /\ invoices[id].status = Paid
            /\ other \notin {sender, recipient}
            /\ CI_getEncryptedAmount(sender, id).ret = invoices[id].encryptedAmount
            /\ CI_getEncryptedAmount(recipient, id).err = NoError
            /\ CI_getEncryptedAmount(other, id).err.name = "NotAuthorized"
            /\ CI_getEncryptedBalance(recipient, recipient).ret
                 = encryptedBalances[recipient]
            /\ FHE_isInitialized(encryptedBalances[recipient])
            /\ CI_getEncryptedBalance(recipient, sender).err.name
                 = "NotAuthorized"

\* C16: in SimpleInvoice, createInvoice with amount = 0 and a recipient that
\* is neither address(0) nor the caller fails with InvalidAmount and changes
\* nothing, and every stored invoice has amount > 0; in InvoiceManager and
\* ConfidentialInvoice a createInvoice whose input verifies succeeds whatever
\* the value behind it, zero included.
C16_ZeroAmountRefused ==
    /\ variant = SI =>
        /\ \A a \in CreateArgs :
            (a.recipient # ZeroAddress /\ a.recipient # a.caller /\ a.amount = 0)
                => /\ Create(a).err = InvalidAmount
                   /\ Unchanged(Create(a))
        /\ \A id \in IdSpace : Exists(id) => invoices[id].amount > 0
    /\ variant # SI =>
        \A a \in CreateArgs :
            ( /\ a.recipient # ZeroAddress /\ a.recipient # a.caller
              /\ FHE_verifies(a.ext) )
                => /\ Create(a).err = NoError
                   /\ Create(a).st.invoices[Create(a).ret].encryptedAmount
                        = Enc(a.ext.val)

\* SimpleInvoice holding one invoice of a positive amount: a zero-amount
\* createInvoice to a valid recipient is refused and the count stays 1.
C16_Witness ==
    /\ variant = SI
    /\ invoiceCounter = 1
    /\ invoices[0].amount = MaxAmount
    /\ \E a \in CreateArgs :
        /\ a.recipient # ZeroAddress /\ a.recipient # a.caller
        /\ a.amount = 0
        /\ Create(a).err = InvalidAmount
        /\ Create(a).st.invoiceCounter = 1

\* C17: in SimpleInvoice, a successful createInvoice stores createdAt = the
\* block's timestamp, and dueDate = createdAt + 2,592,000 when the dueDate
\* argument is 0 and the given dueDate otherwise; every stored invoice has one
\* of these two due dates; and on a contract without invoices the creation
\* returns id 0 with status Pending.
C17_DueDateDefault ==
    variant = SI =>
        /\ \A a \in CreateArgs :
            LET r == Create(a)
                new == r.st.invoices[r.ret]
            IN  r.err = NoError =>
                  /\ new.createdAt = now
                  /\ a.dueDate = 0 => new.dueDate = new.createdAt + 30 * 24 * 60 * 60
                  /\ a.dueDate # 0 => new.dueDate = a.dueDate
                  /\ invoiceCounter = 0 => (r.ret = 0 /\ new.status = Pending)
        /\ \A id \in IdSpace :
            Exists(id) =>
                invoices[id].dueDate
                    \in {invoices[id].createdAt + 2592000} \cup (DueDates \ {0})

\* SimpleInvoice: invoice 0 created in the first block with the given due
\* date, invoice 1 created in a later block with dueDate = 0.
C17_Witness ==
    /\ variant = SI
    /\ Exists(0) /\ invoices[0].createdAt = 1
    /\ invoices[0].dueDate = GivenDueDate
    /\ Exists(1) /\ invoices[1].createdAt = 2
    /\ invoices[1].dueDate = 2 + 2592000

\* A call result that is a failure leaves the storage (counter, invoices,
\* sent and received lists, balances) as it was and emits nothing.
FailsCleanly(r) ==
    r.err # NoError => (Unchanged(r) /\ r.events = <<>>)

C19_Fresh ==
    /\ \A caller \in Users :
        /\ getInvoiceCount(caller).err = NoError
        /\ getInvoiceCount(caller).ret = 0
    /\ \A caller \in Users, user \in Addresses :
        /\ getSentInvoices(caller, user).err = NoError
        /\ getSentInvoices(caller, user).ret = <<>>
        /\ getReceivedInvoices(caller, user).err = NoError
        /\ getReceivedInvoices(caller, user).ret = <<>>

\* getSentInvoices and getReceivedInvoices succeed for every address and
\* every caller, change nothing, and return the empty list for an address that
\* is the sender / the recipient of no invoice.
C19_ListQueriesTotal ==
    \A caller \in Users, user \in Addresses :
        LET s == getSentInvoices(caller, user)
            r == getReceivedInvoices(caller, user)
        IN  /\ s.err = NoError /\ Unchanged(s)
            /\ r.err = NoError /\ Unchanged(r)
            /\ (\A id \in IdSpace : invoices[id].sender # user) => s.ret = <<>>
            /\ (\A id \in IdSpace : invoices[id].recipient # user) => r.ret = <<>>

\* C19: on a freshly deployed contract getInvoiceCount() is 0 and
\* getSentInvoices / getReceivedInvoices return the empty list for every
\* address; in every reachable state the two list queries succeed for every
\* address and caller, with the empty list for an address that never sent /
\* received an invoice.
C19_FreshAndTotal ==
    /\ C19_Fresh
    /\ []C19_ListQueriesTotal

\* One party has sent two invoices; a bystander who never sent or received
\* one gets two empty lists, and can read the party's list.
C19_Witness ==
    \E a, b \in Users :
        /\ Len(sentInvoices[a]) = 2
        /\ \A id \in IdSpace :
            invoices[id].sender # b /\ invoices[id].recipient # b
        /\ getSentInvoices(a, b).ret = <<>>
        /\ getReceivedInvoices(a, b).ret = <<>>
        /\ getSentInvoices(b, a).ret = sentInvoices[a]
        /\ getSentInvoices(b, a).err = NoError

\* Sequence s is a prefix of sequence t.
IsPrefix(s, t) == Len(s) <= Len(t) /\ SubSeq(t, 1, Len(s)) = s

\* Call result r leaves both index lists of every address as they are.
KeepsLists(r) ==
    /\ r.st.sentInvoices = sentInvoices
    /\ r.st.receivedInvoices = receivedInvoices

\* Every step keeps each list as a prefix of the list after the step.
C20_PrefixStep ==
    \A a \in Addresses :
        /\ IsPrefix(sentInvoices[a], sentInvoices'[a])
        /\ IsPrefix(receivedInvoices[a], receivedInvoices'[a])

\* payInvoice, cancelInvoice, disputeInvoice and depositBalance, successful or
\* not, leave the lists alone, and every existing invoice, whatever its
\* status, is in its sender's sent list and its recipient's received list.
C20_OnlyCreateTouchesLists ==
    /\ \A caller \in Users, id \in IdSpace :
        /\ KeepsLists(payInvoice(caller, id, now))
        /\ KeepsLists(cancelInvoice(caller, id, now))
        /\ variant # IM => KeepsLists(disputeInvoice(caller, id))
    /\ variant = CI =>
        \A caller \in Users, ext \in ExternalInputs :
            KeepsLists(CI_depositBalance(caller, ext))
    /\ \A id \in IdSpace :
        Exists(id) =>
            /\ \E k \in DOMAIN sentInvoices[invoices[id].sender] :
                 sentInvoices[invoices[id].sender][k] = id
            /\ \E k \in DOMAIN receivedInvoices[invoices[id].recipient] :
                 receivedInvoices[invoices[id].recipient][k] = id

\* C20: the sent and received lists are append-only: every step leaves each
\* address's list a prefix of its list after the step (so the list of any
\* earlier state is a prefix of the list of any later one); pay, cancel,
\* dispute and deposit never change a list, and the ids of Paid, Cancelled and
\* Disputed invoices stay listed.
C20_ListsAppendOnly ==
    /\ []C20_OnlyCreateTouchesLists
    /\ [][C20_PrefixStep]_vars

\* A sender's list <<0, 1>> whose first invoice has left Pending and whose
\* recipient still has it listed.
C20_Witness ==
    \E a \in Users :
        /\ sentInvoices[a] = <<0, 1>>
        /\ invoices[0].status \in Terminal
        /\ invoices[1].status = Pending
        /\ receivedInvoices[invoices[0].recipient][1] = 0

\* After a step that took invoice id out of Pending (the winner's
\* transaction), the recipient's payInvoice and disputeInvoice and the
\* sender's cancelInvoice all fail with the invalid-status error and change
\* nothing, so the status stays the one the winner set.
C22_LoserFails(id) ==
    (invoices[id].status = Pending /\ invoices'[id].status # Pending) =>
        LET p == payInvoice(invoices[id].recipient, id, now)'
            c == cancelInvoice(invoices[id].sender, id, now)'
        IN  /\ p.err = InvalidStatus(id)' /\ p.st = Storage'
            /\ c.err = InvalidStatus(id)' /\ c.st = Storage'
            /\ variant # IM
                 => LET d == disputeInvoice(invoices[id].recipient, id)'
                    IN  d.err = InvalidStatus(id)' /\ d.st = Storage'

EmitsOneFor(r, name, id) ==
    IF r.err = NoError
    THEN /\ Len(r.events) = 1
         /\ r.events[1].name = name
         /\ r.events[1].invoiceId = id
    ELSE r.events = <<>>

\* Every call of a state-changing function emits its one event on success
\* and nothing on failure.
C24_OneEventPerCall ==
    /\ \A a \in CreateArgs :
        LET r == Create(a) IN
        /\ EmitsOneFor(r, "InvoiceCreated", r.ret)
        /\ r.err = NoError
             => /\ r.events[1].sender = a.caller
                /\ r.events[1].recipient = a.recipient
    /\ \A caller \in Users, id \in IdSpace :
        /\ EmitsOneFor(payInvoice(caller, id, now), "InvoicePaid", id)
        /\ payInvoice(caller, id, now).err = NoError
             => payInvoice(caller, id, now).events[1].payer = caller
        /\ EmitsOneFor(cancelInvoice(caller, id, now), "InvoiceCancelled", id)
        /\ variant # IM
             => EmitsOneFor(disputeInvoice(caller, id), "InvoiceDisputed", id)
    /\ variant = CI =>
        \A caller \in Users, ext \in ExternalInputs :
            LET r == CI_depositBalance(caller, ext) IN
            IF r.err = NoError
            THEN /\ Len(r.events) = 1
                 /\ r.events[1].name = "BalanceDeposited"
                 /\ r.events[1].user = caller
            ELSE r.events = <<>>

\* The log holds one InvoiceCreated event for every existing id and none for
\* any other, and for a Paid, Cancelled or Disputed invoice one event of that
\* kind and none of the two other kinds; for a Pending one none of the three.
C24_LogAgreesWithStatus ==
    \A id \in IdSpace :
        /\ emitted[id]["InvoiceCreated"] = IF Exists(id) THEN 1 ELSE 0
        /\ emitted[id]["InvoicePaid"]
             = IF invoices[id].status = Paid THEN 1 ELSE 0
        /\ emitted[id]["InvoiceCancelled"]
             = IF invoices[id].status = Cancelled THEN 1 ELSE 0
        /\ emitted[id]["InvoiceDisputed"]
             = IF invoices[id].status = Disputed THEN 1 ELSE 0

\* C24: every successful state-changing call emits exactly one event of the
\* matching kind carrying the invoice id or the user, a failing call emits
\* none, and in every reachable state the log holds for each invoice id
\* exactly one creation event and at most one paid / cancelled / disputed
\* event, of the kind of the invoice's status.
C24_EventsMatchHistory ==
    C24_OneEventPerCall /\ C24_LogAgreesWithStatus

\* Two invoices, one paid and one cancelled after failed attempts were
\* possible: the log holds one creation event each, one InvoicePaid for the
\* first and one InvoiceCancelled for the second.
C24_Witness ==
    \E i, j \in IdSpace :
        /\ invoices[i].status = Paid /\ invoices[j].status = Cancelled
        /\ emitted[i]["InvoiceCreated"] = 1 /\ emitted[j]["InvoiceCreated"] = 1
        /\ emitted[i]["InvoicePaid"] = 1 /\ emitted[i]["InvoiceCancelled"] = 0
        /\ emitted[j]["InvoiceCancelled"] = 1 /\ emitted[j]["InvoicePaid"] = 0


\* ------------------------------------------------------------------------ C25
\* C25: in every reachable state of each contract every stored invoice (every
\* id below the counter) has a non-zero sender, a non-zero recipient and a recipient other than its
\* sender; so a successful ConfidentialInvoice.payInvoice has a payer other
\* than the payee, and its debit and its credit land on two balance entries:
\* the payer's balance after the call is the debited one, the credit has not
\* been written over it.
C25_PartiesDistinct ==
    /\ \A id \in IdSpace :
         id < invoiceCounter =>
            /\ invoices[id].sender # ZeroAddress
            /\ invoices[id].recipient # ZeroAddress
            /\ invoices[id].sender # invoices[id].recipient
    /\ variant = CI =>
         \A caller \in Users, id \in IdSpace :
            LET r == CI_payInvoice(caller, id)
                transfer == FHE_select(FHE_ge(encryptedBalances[caller],
                                              invoices[id].encryptedAmount),
                                       invoices[id].encryptedAmount,
                                       FHE_asEuint64(0))
            IN  r.err = NoError =>
                  /\ caller # invoices[id].sender
                  /\ r.st.encryptedBalances[caller] =
                        FHE_sub(encryptedBalances[caller], transfer)

\* An invoice of ConfidentialInvoice has been paid out of a balance that
\* covered it: the payer was debited and the payee, another account, credited.
C25_Witness ==
    /\ variant = CI
    /\ \E id \in IdSpace :
         /\ Exists(id)
         /\ invoices[id].status = Paid
         /\ invoices[id].encryptedAmount.val > 0
         /\ invoices[id].sender # invoices[id].recipient
         /\ FHE_isInitialized(encryptedBalances[invoices[id].sender])
         /\ encryptedBalances[invoices[id].sender].val > 0
         /\ FHE_isInitialized(encryptedBalances[invoices[id].recipient])


\* ------------------------------------------------------------------------ C26
\* The ids of IdSpace in increasing order, and of them the stored ones (below
\* the counter) that A has sent, or received.
IdsInOrder == [i \in 1..(MaxInvoices + 1) |-> i - 1]
SentBy(A) ==
    SelectSeq(IdsInOrder,
              LAMBDA id : id < invoiceCounter /\ invoices[id].sender = A)
ReceivedBy(A) ==
    SelectSeq(IdsInOrder,
              LAMBDA id : id < invoiceCounter /\ invoices[id].recipient = A)

\* How often id occurs in the lists of all addresses, and their total length.
Occurrences(lists, id) ==
    Cardinality({p \in Addresses \X (1..(MaxInvoices + 1)) :
                    /\ p[2] \in DOMAIN lists[p[1]]
                    /\ lists[p[1]][p[2]] = id})
TotalLength(lists) ==
    Cardinality({p \in Addresses \X (1..(MaxInvoices + 1)) :
                    p[2] \in DOMAIN lists[p[1]]})

\* C26: in every reachable state, for every address A, getSentInvoices(A)
\* returns exactly the increasing sequence of the stored ids whose sender is A
\* and getReceivedInvoices(A) that of the stored ids whose recipient is A;
\* every stored id occurs once in all the sent lists and once in all the
\* received lists, no other id occurs in them, and the sent lists together
\* are as long as getInvoiceCount() says.
C26_IndexConsistent ==
    /\ \A caller \in Users, A \in Addresses :
         /\ getSentInvoices(caller, A).err = NoError
         /\ getSentInvoices(caller, A).ret = SentBy(A)
         /\ getReceivedInvoices(caller, A).err = NoError
         /\ getReceivedInvoices(caller, A).ret = ReceivedBy(A)
    /\ \A id \in IdSpace :
         /\ Occurrences(sentInvoices, id) = IF id < invoiceCounter THEN 1 ELSE 0
         /\ Occurrences(receivedInvoices, id) =
               IF id < invoiceCounter THEN 1 ELSE 0
    /\ \A caller \in Users :
         /\ TotalLength(sentInvoices) = getInvoiceCount(caller).ret
         /\ TotalLength(receivedInvoices) = getInvoiceCount(caller).ret

\* One account has sent two invoices, listed in the order of their ids, and
\* another account has received two.
C26_Witness ==
    \E A \in Parties :
        /\ Len(sentInvoices[A]) = 2
        /\ sentInvoices[A][1] < sentInvoices[A][2]
        /\ \E B \in Parties : B # A /\ Len(receivedInvoices[B]) = 2


\* ------------------------------------------------------------------------ C27
\* The sum of the balances of the accounts of S as an euint64 holds it; a
\* handle never set counts as 0.
RECURSIVE BalanceSum(_, _)
BalanceSum(balances, S) ==
    IF S = {} THEN 0
    ELSE LET a == CHOOSE x \in S : TRUE
         IN  ((IF FHE_isInitialized(balances[a]) THEN balances[a].val ELSE 0)
              + BalanceSum(balances, S \ {a})) % EuintModulus
TotalBalance(balances) == BalanceSum(balances, Addresses)

\* C27: in ConfidentialInvoice a payInvoice leaves the total of the balances
\* (modulo 2^EuintBits, an unset balance counting as 0) as it was;
\* cancelInvoice, disputeInvoice and createInvoice change no balance; a
\* successful depositBalance changes the caller's balance only, to the old
\* balance plus the deposited amount (modulo 2^EuintBits); and in every
\* reachable state the total of the balances is the total of the deposits
\* modulo 2^EuintBits.
C27_BalanceConservation ==
    variant = CI =>
      /\ TotalBalance(encryptedBalances) = deposited
      /\ \A caller \in Users, id \in IdSpace :
           /\ TotalBalance(CI_payInvoice(caller, id).st.encryptedBalances)
                 = TotalBalance(encryptedBalances)
           /\ CI_cancelInvoice(caller, id).st.encryptedBalances
                 = encryptedBalances
           /\ CI_disputeInvoice(caller, id).st.encryptedBalances
                 = encryptedBalances
      /\ \A a \in CreateArgs : Create(a).st.encryptedBalances = encryptedBalances
      /\ \A caller \in Users, ext \in ExternalInputs :
           LET r == CI_depositBalance(caller, ext)
               before == IF FHE_isInitialized(encryptedBalances[caller])
                         THEN encryptedBalances[caller].val ELSE 0
           IN  r.err = NoError =>
                 /\ FHE_isInitialized(r.st.encryptedBalances[caller])
                 /\ r.st.encryptedBalances[caller].val
                       = (before + ext.val) % EuintModulus
                 /\ \A other \in Addresses \ {caller} :
                       r.st.encryptedBalances[other] = encryptedBalances[other]
                 /\ TotalBalance(r.st.encryptedBalances)
                       = (TotalBalance(encryptedBalances) + ext.val)
                            % EuintModulus

\* Deposits have been made, an invoice of a positive amount has been paid in
\* full, and the whole of the deposits now lies with the invoice's sender.
C27_Witness ==
    /\ variant = CI
    /\ deposited > 0
    /\ \E id \in IdSpace :
         /\ Exists(id)
         /\ invoices[id].status = Paid
         /\ invoices[id].encryptedAmount.val > 0
         /\ encryptedBalances[invoices[id].sender].val = deposited
         /\ encryptedBalances[invoices[id].recipient] = Enc(0)


\* ------------------------------------------------------------------------ C28
\* The writes of the successful call r on invoice id stay within the invoice:
\* counter, lists and every other record are as before, the record itself is
\* as before but for status (and updatedAt in InvoiceManager), and the only
\* balances written are those of the accounts of movers.
FrameOf(r, id, movers) ==
    /\ r.st.invoiceCounter = invoiceCounter
    /\ r.st.sentInvoices = sentInvoices
    /\ r.st.receivedInvoices = receivedInvoices
    /\ \A other \in IdSpace \ {id} : r.st.invoices[other] = invoices[other]
    /\ Frozen(r.st.invoices[id]) = Frozen(invoices[id])
    /\ r.st.invoices[id].status # invoices[id].status
    /\ \A a \in Addresses \ movers :
          r.st.encryptedBalances[a] = encryptedBalances[a]

\* C28: a successful payInvoice, cancelInvoice or disputeInvoice changes only
\* the invoice it names: the counter, both lists and every other invoice's
\* record are unchanged; of the named record only status changes, and
\* updatedAt in InvoiceManager; no balance changes, but those of the named
\* invoice's recipient and sender in ConfidentialInvoice.payInvoice.
C28_OnlyTheAddressedInvoice ==
    \A caller \in Users, id \in IdSpace :
        /\ payInvoice(caller, id, now).err = NoError =>
              FrameOf(payInvoice(caller, id, now), id,
                      IF variant = CI
                      THEN {invoices[id].recipient, invoices[id].sender}
                      ELSE {})
        /\ cancelInvoice(caller, id, now).err = NoError =>
              FrameOf(cancelInvoice(caller, id, now), id, {})
        /\ (variant # IM /\ disputeInvoice(caller, id).err = NoError) =>
              FrameOf(disputeInvoice(caller, id), id, {})

\* Two invoices are stored; one has been paid, cancelled or disputed and the
\* other, with the same recipient, is still pending.
C28_Witness ==
    \E id \in IdSpace, other \in IdSpace :
        /\ id # other
        /\ Exists(id) /\ Exists(other)
        /\ invoices[id].recipient = invoices[other].recipient
        /\ invoices[id].status \in Terminal
        /\ invoices[other].status = Pending


\* ------------------------------------------------------------------------ C30
\* C30: in SimpleInvoice, for every successful createInvoice, the call with
\* dueDate = 0 included, the dueDate of the InvoiceCreated event it emits is
\* the dueDate stored in the invoice record.
C30_EventCarriesStoredDueDate ==
    variant = SI =>
      \A caller \in Parties, recipient \in Recipients, amount \in Amounts,
         description \in Descriptions, dueDate \in DueDates :
          LET r == SI_createInvoice(caller, recipient, amount, description,
                                    dueDate, now)
          IN  r.err = NoError =>
                /\ Len(r.events) = 1
                /\ r.events[1].name = "InvoiceCreated"
                /\ r.events[1].dueDate = r.st.invoices[r.ret].dueDate


\* ------------------------------------------------------------------------ C23
\* Creation k is in flight: started and neither fulfilled nor rejected.
InFlight(k) == creation[k] \in {"preparing", "creating"}
Awaiting(h) == hook[h].pc \in {"waiting", "starting"}

\* At most one creation is in flight, it is the one initPromise holds, and
\* every call that awaits a creation in flight awaits that one; at most one
\* creation has succeeded, the module-level instance is the one it made, and
\* a hook that holds an instance holds that one.
C23_OneCreation ==
    /\ Cardinality({k \in Attempts : InFlight(k)}) <= 1
    /\ \A k \in Attempts : InFlight(k) => initPromise = k
    /\ \A h \in Hooks :
          (Awaiting(h) /\ InFlight(hook[h].awaits))
             => hook[h].awaits = initPromise
    /\ Cardinality({k \in Attempts : creation[k] = "fulfilled"}) <= 1
    /\ \A k \in Attempts :
          creation[k] = "fulfilled" <=> globalFhevmInstance = k
    /\ \A h \in Hooks :
          hook[h].fhevmInstance # 0
             => hook[h].fhevmInstance = globalFhevmInstance

\* Once a creation has succeeded no step starts a creation or calls
\* createInstance.
C23_NoCreationAfterSuccess ==
    [][(\E k \in Attempts : creation[k] = "fulfilled")
          => \A k \in Attempts :
                creation'[k] \in {"preparing", "creating"}
                   => creation'[k] = creation[k]]_vars

\* The module-level instance, once set, stays as it is.
C23_InstanceKept ==
    [][globalFhevmInstance # 0
          => globalFhevmInstance' = globalFhevmInstance]_vars

\* C23: the SDK instance is a singleton of the page.  Whatever the order of
\* the initialisations of the hooks and of the steps of the creations, at
\* most one creation is in flight and the later callers await its promise and
\* get its instance; after a creation has succeeded createInstance is not
\* called again; the module-level instance, once set, is never cleared or
\* replaced.
C23_InstanceIsSingleton ==
    /\ []C23_OneCreation
    /\ C23_NoCreationAfterSuccess
    /\ C23_InstanceKept

\* A creation is in flight and all the hooks await it, its starter and the
\* callers that came later.
C23_Witness ==
    \E k \in Attempts :
        /\ InFlight(k)
        /\ creation[k] = "creating"
        /\ \A h \in Hooks : Awaiting(h) /\ hook[h].awaits = k
        /\ \E h \in Hooks : hook[h].pc = "waiting"


\* ------------------------------------------------------------------------ C29
\* The failure of creation k is still to be handled: only in the effect
\* version, whose starter sets initPromise to null in its own catch, and only
\* until that starter goes on.
ResetPending(k) ==
    /\ hookVersion = Effect
    /\ \E h \in Hooks : hook[h].pc = "starting" /\ hook[h].awaits = k

\* A failed creation has set no instance, and its promise is not kept in
\* initPromise beyond the handling of the failure.
C29_FailureLeavesNothing ==
    \A k \in Attempts :
        creation[k] = "rejected" =>
            /\ globalFhevmInstance # k
            /\ initPromise = k => ResetPending(k)

\* Hook h calls initialize in this step and comes to an await.
Calls(h) ==
    /\ hook[h].pc \in {"rendered", "idle"}
    /\ hook'[h].pc \in {"waiting", "starting"}

\* A call made when initPromise is null and no instance is set starts a fresh
\* creation, whatever failed before; a call that joins a promise joins the
\* one in initPromise, which has not been rejected unless its reset is
\* pending.
C29_RetryStartsAfresh ==
    [][\A h \in Hooks :
          Calls(h) =>
             IF initPromise = 0
             THEN /\ hook'[h].pc = "starting"
                  /\ creation[hook'[h].awaits] = "none"
                  /\ creation'[hook'[h].awaits] = "preparing"
                  /\ initPromise' = hook'[h].awaits
             ELSE /\ hook'[h].pc = "waiting"
                  /\ hook'[h].awaits = initPromise
                  /\ creation' = creation
                  /\ creation[initPromise] = "rejected"
                        => ResetPending(initPromise)]_vars

\* A step that sets initPromise to null clears the promise of a creation that
\* has failed, and no creation is in flight after it.
C29_ResetClearsOwnPromise ==
    [][(initPromise # 0 /\ initPromise' = 0)
          => /\ creation'[initPromise] = "rejected"
             /\ \A k \in Attempts :
                   creation'[k] \notin {"preparing", "creating"}]_vars

\* A call that awaited a promise which was rejected ends with the failure, and
\* its continuation starts no creation.
C29_WaitersSeeFailure ==
    [][\A h \in Hooks :
          (/\ hook[h].pc \in {"waiting", "starting"}
           /\ creation[hook[h].awaits] = "rejected"
           /\ hook'[h] # hook[h])
             => /\ hook'[h].pc = "idle"
                /\ hook'[h].outcome = "failed"
                /\ hook'[h].fhevmInstance = hook[h].fhevmInstance
                /\ creation' = creation]_vars

\* C29: the initialisation can be tried again after a failure.  A creation
\* that fails sets no instance and initPromise is set to null when the
\* failure is handled, so that a later call starts a fresh creation; the
\* step that sets initPromise to null never clears the promise of a creation
\* in flight; the calls that awaited the failed promise end with the failure
\* and start no creation.
C29_RetryAfterFailure ==
    /\ []C29_FailureLeavesNothing
    /\ C29_RetryStartsAfresh
    /\ C29_ResetClearsOwnPromise
    /\ C29_WaitersSeeFailure

\* The first creation failed, a caller that had joined it saw the failure,
\* and the second creation, started afterwards, has made the instance.
C29_Witness ==
    /\ creation[1] = "rejected"
    /\ creation[2] = "fulfilled"
    /\ globalFhevmInstance = 2
    /\ initPromise = 2
    /\ \E h \in Hooks : hook[h].outcome = "failed"
    /\ \E h \in Hooks : hook[h].fhevmInstance = 2


\* ------------------------------------------------------------------------ C21
\* The handle is the public encoding of the amount: BigInt(handle) gives the
\* amount back.  Over strings of HandleDigits digits the encoding is one to
\* one, so the handle reads as the amount exactly when it is its encoding.
ReadsAs(handle, amount) ==
    handle = padStart(toString16(amount), HandleDigits, 0)

\* C21: what the page passes to createInvoice as the encrypted amount is
\* always a handle that the SDK's encrypt returned, with the proof returned
\* with it, and neither it nor any result of encryptAmount is a value the
\* amount can be read from.
C21_SubmitsSdkCiphertext ==
    /\ submitted.set =>
          /\ \E nonce \in SdkNonces :
                /\ submitted.encryptedAmount
                      = SdkEncryption(nonce).encryptedAmount
                /\ submitted.inputProof = SdkEncryption(nonce).inputProof
          /\ ~ReadsAs(submitted.encryptedAmount, submitted.amount)
    /\ \A h \in Hooks, amount \in FormAmounts, nonce \in SdkNonces :
          LET e == encryptAmount(h, amount, nonce) IN
          (hook[h].pc # "unmounted" /\ e.kind = "returned")
             => ~ReadsAs(e.result.encryptedAmount, amount)

====
